---- MODULE Spec2Model ----
(***************************************************************************)
(* A model of the laz RPC client: the runtime dispatcher LocoClient        *)
(* (laz_client/src/client/mod.rs) and the endpoint resolvers used at run   *)
(* time and at generation time (laz_client_macros), the client generators  *)
(* with their type mapper (laz_client_macros), and the wire format of the  *)
(* schema model (laz_types).                                               *)
(*                                                                         *)
(* Text is modelled by TLA+ strings, so substring tests, replacements and  *)
(* formatted messages are computed character by character.  An             *)
(* Option<T> is a sequence of length 0 (None) or 1 (Some).  A JSON value   *)
(* is a tagged record; a JSON object holds its members as a sequence of    *)
(* <<key, value>> pairs in key order (serde_json's default Map order).     *)
(***************************************************************************)
EXTENDS Integers, Sequences, FiniteSets, TLC

VARIABLES
    pc,                  \* lifecycle of the dispatcher: "uninit", "ready", "panicked"
    server_addr,         \* LocoClient.server_addr
    functions,           \* LocoClient.functions: name -> RpcFunction
    endpoints_discovery, \* LocoClient.endpoints_discovery: sequence of EndpointDiscovery
    init_call,           \* the run of LocoClient::init: its request, what fetch_metadata returned, what init returned
    calls,               \* per caller: the invocation (call or accessor) it is running or has finished
    resolver,            \* a run of the resolvers on one (function name, endpoint list) input
    generation,          \* a run of a client generator on one metadata document
    codec,               \* a TypeSchema value on its way through the wire format and back
    registry             \* the server's ENDPOINTS_DISCOVERY cell and the calls on it

vars == <<pc, server_addr, functions, endpoints_discovery, init_call, calls, resolver,
          generation, codec, registry>>

client_vars == <<pc, server_addr, functions, endpoints_discovery, init_call, calls>>

(***************************************************************************)
(* Bounds of the model.                                                    *)
(***************************************************************************)
MaxFunctions == 2      \* function entries in a metadata document
MaxEndpoints == 2      \* endpoint entries in a metadata document
MaxResolverEndpoints == 2  \* endpoint entries in the input of a resolver run
MaxSchemaDepth == 2    \* nesting depth of a TypeSchema value
MaxGenFunctions == 2   \* function entries in the document a generator processes

(***************************************************************************)
(* Option<T>                                                               *)
(***************************************************************************)
None == <<>>
Some(x) == <<x>>
IsSome(o) == Len(o) = 1
IsNone(o) == Len(o) = 0
Unwrap(o) == o[1]

(***************************************************************************)
(* str operations                                                          *)
(***************************************************************************)
\* str::contains(&str): s has p as a contiguous substring; every string contains "".
Contains(s, p) ==
    \E i \in 1..(Len(s) - Len(p) + 1) : SubSeq(s, i, i + Len(p) - 1) = p

\* str::replace(char, &str) for single characters.
RECURSIVE Replace(_, _, _)
Replace(s, from, to) ==
    IF Len(s) = 0 THEN ""
    ELSE LET c == SubSeq(s, 1, 1)
         IN  (IF c = from THEN to ELSE c) \o Replace(SubSeq(s, 2, Len(s)), from, to)

UpperChars == "ABCDEFGHIJKLMNOPQRSTUVWXYZ"
LowerChars == "abcdefghijklmnopqrstuvwxyz"

LowerOf(c) ==
    IF \E i \in 1..Len(UpperChars) : SubSeq(UpperChars, i, i) = c
    THEN LET i == CHOOSE j \in 1..Len(UpperChars) : SubSeq(UpperChars, j, j) = c
         IN  SubSeq(LowerChars, i, i)
    ELSE c

\* str::to_lowercase over ASCII text.
RECURSIVE ToLowercase(_)
ToLowercase(s) ==
    IF Len(s) = 0 THEN ""
    ELSE LowerOf(SubSeq(s, 1, 1)) \o ToLowercase(SubSeq(s, 2, Len(s)))

Digits == "0123456789"

\* Display of an unsigned integer (usize::to_string, u16 Display).
RECURSIVE Decimal(_)
Decimal(n) ==
    IF n < 10 THEN SubSeq(Digits, n + 1, n + 1)
    ELSE Decimal(n \div 10) \o SubSeq(Digits, (n % 10) + 1, (n % 10) + 1)

(***************************************************************************)
(* serde_json::Value                                                       *)
(***************************************************************************)
JNull == [t |-> "null"]
JBool(b) == [t |-> "bool", b |-> b]
JNum(n) == [t |-> "num", n |-> n]
JStr(s) == [t |-> "str", s |-> s]
JArr(a) == [t |-> "arr", a |-> a]
JObj(o) == [t |-> "obj", o |-> o]

\* Value's Index<&str>: the member of an object, Null for a missing key or a non-object.
index_into(v, key) ==
    IF v.t = "obj" /\ \E i \in 1..Len(v.o) : v.o[i][1] = key
    THEN v.o[CHOOSE i \in 1..Len(v.o) : v.o[i][1] = key][2]
    ELSE JNull

\* Value::get(key) / value[key].  The value is bound before it is indexed, so
\* that it is evaluated once.
Get(v, key) == CHOOSE found \in {index_into(value, key) : value \in {v}} : TRUE

as_str(v) == IF v.t = "str" THEN Some(v.s) ELSE None
as_bool(v) == IF v.t = "bool" THEN Some(v.b) ELSE None
as_array(v) == IF v.t = "arr" THEN Some(v.a) ELSE None
unwrap_or(o, d) == IF IsSome(o) THEN Unwrap(o) ELSE d

\* Display of a Value: its compact JSON text.
RECURSIVE JsonText(_)
RECURSIVE JoinValues(_)
RECURSIVE JoinMembers(_)
JsonText(v) ==
    CASE v.t = "null" -> "null"
      [] v.t = "bool" -> (IF v.b THEN "true" ELSE "false")
      [] v.t = "num"  -> Decimal(v.n)
      [] v.t = "str"  -> "\"" \o v.s \o "\""
      [] v.t = "arr"  -> "[" \o JoinValues(v.a) \o "]"
      [] v.t = "obj"  -> "{" \o JoinMembers(v.o) \o "}"
JoinValues(a) ==
    IF Len(a) = 0 THEN ""
    ELSE JsonText(a[1]) \o (IF Len(a) = 1 THEN "" ELSE "," \o JoinValues(Tail(a)))
JoinMembers(o) ==
    IF Len(o) = 0 THEN ""
    ELSE "\"" \o o[1][1] \o "\":" \o JsonText(o[1][2])
         \o (IF Len(o) = 1 THEN "" ELSE "," \o JoinMembers(Tail(o)))

\* A stringify_value that takes the JSON text of every value, strings included.
stringify_value_as_json_text(value) == JsonText(value)

\* stringify_value: the text a query parameter carries for a JSON value.
stringify_value(value) ==
    CASE value.t = "str"  -> value.s
      [] value.t = "num"  -> Decimal(value.n)
      [] value.t = "bool" -> (IF value.b THEN "true" ELSE "false")
      [] OTHER            -> JsonText(value)

(***************************************************************************)
(* The error values of RpcClientError and the Result of a call             *)
(***************************************************************************)
RequestError(msg) == [kind |-> "RequestError", msg |-> msg]
JsonError(msg) == [kind |-> "JsonError", msg |-> msg]
FunctionNotFound(msg) == [kind |-> "FunctionNotFound", msg |-> msg]
InvalidParameter(msg) == [kind |-> "InvalidParameter", msg |-> msg]
ServerError(msg) == [kind |-> "ServerError", msg |-> msg]

Ok(v) == [ok |-> TRUE, value |-> Some(v), err |-> None]
Err(e) == [ok |-> FALSE, value |-> None, err |-> Some(e)]

\* A base_url that leaves out the port.
base_url_without_port(addr) == "http://" \o addr.ip

\* ServerAddr::base_url
base_url(addr) == "http://" \o addr.ip \o ":" \o Decimal(addr.port)

\* StatusCode::is_success
is_success(status) == 200 <= status /\ status <= 299

\* Display of a StatusCode: the number followed by its canonical reason.
StatusText(status) ==
    Decimal(status) \o " " \o
        (CASE status = 200 -> "OK"
           [] status = 201 -> "Created"
           [] status = 404 -> "Not Found"
           [] status = 500 -> "Internal Server Error"
           [] OTHER        -> "<unknown status code>")

(***************************************************************************)
(* HashMap<String, V>: a function from its keys; insert overwrites.        *)
(***************************************************************************)
EmptyMap == <<>>

Insert(map, key, value) ==
    [k \in (DOMAIN map) \cup {key} |-> IF k = key THEN value ELSE map[k]]

\* The orders in which iterating a HashMap may yield its keys: the order is
\* unspecified (RandomState), so every permutation of the key set is possible.
KeyOrders(map) ==
    {o \in [1..Cardinality(DOMAIN map) -> DOMAIN map] :
        \A i, j \in 1..Cardinality(DOMAIN map) : o[i] = o[j] => i = j}

(***************************************************************************)
(* LocoClient::fetch_metadata                                              *)
(***************************************************************************)
\* MetadataResponse as serde derives its Deserialize: the four fields are
\* required and typed; other members are ignored.
deserialize_MetadataResponse(json) ==
    IF /\ IsSome(json)
       /\ Unwrap(json).t = "obj"
       /\ Get(Unwrap(json), "total_functions").t = "num"
       /\ Get(Unwrap(json), "functions").t = "arr"
       /\ Get(Unwrap(json), "endpoints_discovery").t = "arr"
       /\ Get(Unwrap(json), "total_endpoints").t = "num"
    THEN Some([total_functions     |-> Get(Unwrap(json), "total_functions").n,
               functions           |-> Get(Unwrap(json), "functions").a,
               endpoints_discovery |-> Get(Unwrap(json), "endpoints_discovery").a,
               total_endpoints     |-> Get(Unwrap(json), "total_endpoints").n])
    ELSE None

\* A loop over metadata_response.functions that keeps the first entry of a
\* function name and skips later entries with that name.
RECURSIVE store_functions_keeping_first(_, _)
store_functions_keeping_first(values, map) ==
    IF Len(values) = 0 THEN [functions |-> map, err |-> None]
    ELSE LET func_value == Head(values)
             function_name == as_str(Get(func_value, "function_name"))
             output_type_name == as_str(Get(func_value, "output_type_name"))
         IN  IF IsNone(function_name)
             THEN [functions |-> map, err |-> Some(InvalidParameter("Missing function_name"))]
             ELSE IF IsNone(output_type_name)
             THEN [functions |-> map, err |-> Some(InvalidParameter("Missing output_type_name"))]
             ELSE IF Unwrap(function_name) \in DOMAIN map
             THEN store_functions_keeping_first(Tail(values), map)
             ELSE store_functions_keeping_first(Tail(values),
                    Insert(map, Unwrap(function_name),
                      [name              |-> Unwrap(function_name),
                       is_mutation       |-> unwrap_or(as_bool(Get(func_value, "is_mutation")), FALSE),
                       is_async          |-> unwrap_or(as_bool(Get(func_value, "is_async")), FALSE),
                       input_type_name   |-> as_str(Get(func_value, "input_type_name")),
                       output_type_name  |-> Unwrap(output_type_name),
                       params            |-> <<Get(func_value, "params")>>,
                       input_schema_json |-> as_str(Get(func_value, "input_schema_json")),
                       output_schema_json |-> as_str(Get(func_value, "output_schema_json"))]))

\* The loop over metadata_response.functions: each entry is inserted into
\* self.functions as soon as it is parsed; `?` leaves the loop at the first
\* entry without a function_name or an output_type_name.
RECURSIVE store_functions(_, _)
store_functions(values, map) ==
    IF Len(values) = 0 THEN [functions |-> map, err |-> None]
    ELSE LET func_value == Head(values)
             function_name == as_str(Get(func_value, "function_name"))
             output_type_name == as_str(Get(func_value, "output_type_name"))
         IN  IF IsNone(function_name)
             THEN [functions |-> map, err |-> Some(InvalidParameter("Missing function_name"))]
             ELSE IF IsNone(output_type_name)
             THEN [functions |-> map, err |-> Some(InvalidParameter("Missing output_type_name"))]
             ELSE store_functions(Tail(values),
                    Insert(map, Unwrap(function_name),
                      [name              |-> Unwrap(function_name),
                       is_mutation       |-> unwrap_or(as_bool(Get(func_value, "is_mutation")), FALSE),
                       is_async          |-> unwrap_or(as_bool(Get(func_value, "is_async")), FALSE),
                       input_type_name   |-> as_str(Get(func_value, "input_type_name")),
                       output_type_name  |-> Unwrap(output_type_name),
                       params            |-> <<Get(func_value, "params")>>,
                       input_schema_json |-> as_str(Get(func_value, "input_schema_json")),
                       output_schema_json |-> as_str(Get(func_value, "output_schema_json"))]))

\* methods: the string elements of the array, others dropped (filter_map).
RECURSIVE string_elements(_)
string_elements(arr) ==
    IF Len(arr) = 0 THEN <<>>
    ELSE (IF arr[1].t = "str" THEN <<arr[1].s>> ELSE <<>>) \o string_elements(Tail(arr))

\* The loop over metadata_response.endpoints_discovery: each entry is pushed
\* as soon as it is parsed; `?` leaves at the first entry without uri or methods.
RECURSIVE store_endpoints(_, _)
store_endpoints(values, list) ==
    IF Len(values) = 0 THEN [endpoints_discovery |-> list, err |-> None]
    ELSE LET endpoint_value == Head(values)
             uri == as_str(Get(endpoint_value, "uri"))
             methods == as_array(Get(endpoint_value, "methods"))
         IN  IF IsNone(uri)
             THEN [endpoints_discovery |-> list, err |-> Some(InvalidParameter("Missing endpoint uri"))]
             ELSE IF IsNone(methods)
             THEN [endpoints_discovery |-> list, err |-> Some(InvalidParameter("Missing endpoint methods"))]
             ELSE store_endpoints(Tail(values),
                    Append(list, [uri |-> Unwrap(uri), methods |-> string_elements(Unwrap(methods))]))

\* fetch_metadata on a freshly constructed client (empty map, empty list).
\* `response` is what the server did with GET {base_url}/_laz/metadata:
\*   sent = FALSE            send() failed (no connection)
\*   status                  the HTTP status
\*   text = None             reading the body failed
\*   text = Some(t)          t.json is the body parsed as JSON (None: not JSON),
\*                           t.char_boundary says whether byte min(len, 500) of
\*                           the body is a UTF-8 character boundary
\* `debug_enabled`: whether the tracing subscriber enables DEBUG, so that the
\* arguments of debug!(..) are evaluated.
\* Returns the map and list as fetch_metadata leaves them, and its outcome:
\* result = Some(Ok) / Some(Err(e)), or None when it panicked.
fetch_metadata(response, debug_enabled) ==
    LET untouched(outcome) ==
            [functions |-> EmptyMap, endpoints_discovery |-> <<>>, result |-> outcome]
    IN  IF ~response.sent
        THEN untouched(Some(Err(RequestError("error sending request"))))
        ELSE IF ~is_success(response.status)
        THEN untouched(Some(Err(ServerError(
                 "Failed to fetch metadata: HTTP " \o StatusText(response.status)))))
        ELSE IF IsNone(response.text)
        THEN untouched(Some(Err(RequestError("error decoding response body"))))
        ELSE IF debug_enabled /\ ~Unwrap(response.text).char_boundary
        THEN untouched(None)    \* &response_text[..500] panics inside debug!
        ELSE LET metadata_response == deserialize_MetadataResponse(Unwrap(response.text).json)
             IN  IF IsNone(metadata_response)
                 THEN untouched(Some(Err(ServerError("Failed to parse metadata JSON"))))
                 ELSE LET fs == store_functions(Unwrap(metadata_response).functions, EmptyMap)
                      IN  IF IsSome(fs.err)
                          THEN [functions |-> fs.functions, endpoints_discovery |-> <<>>,
                                result |-> Some(Err(Unwrap(fs.err)))]
                          ELSE LET es == store_endpoints(
                                           Unwrap(metadata_response).endpoints_discovery, <<>>)
                               IN  [functions |-> fs.functions,
                                    endpoints_discovery |-> es.endpoints_discovery,
                                    result |-> IF IsSome(es.err) THEN Some(Err(Unwrap(es.err)))
                                               ELSE Some(Ok("unit"))]

(***************************************************************************)
(* Endpoint resolvers                                                      *)
(***************************************************************************)
kebab(function_name) == Replace(function_name, "_", "-")

\* The body of the `for endpoint in &self.endpoints_discovery` loop, from
\* position i on: the three substring tests, then the three patterns compared
\* with this uri; after the loop, the two fallback patterns.
RECURSIVE find_endpoint_scan(_, _, _)
find_endpoint_scan(endpoints, function_name, i) ==
    IF i > Len(endpoints)
    THEN LET fallback_patterns == <<"/api/" \o kebab(function_name),
                                    "/api/auth/" \o kebab(function_name)>>
             hit(k) == \E j \in 1..Len(endpoints) : endpoints[j].uri = fallback_patterns[k]
         IN  IF hit(1) THEN Some(fallback_patterns[1])
             ELSE IF hit(2) THEN Some(fallback_patterns[2])
             ELSE None
    ELSE LET uri == endpoints[i].uri
             patterns == {"/api/" \o kebab(function_name),
                          "/api/auth/" \o kebab(function_name),
                          "/" \o "auth" \o "/" \o kebab(function_name)}
         IN  IF \/ Contains(uri, function_name)
                \/ Contains(uri, kebab(function_name))
                \/ Contains(uri, ToLowercase(function_name))
             THEN Some(uri)
             ELSE IF uri \in patterns
             THEN Some(uri)
             ELSE find_endpoint_scan(endpoints, function_name, i + 1)

\* A resolver that leaves out the lower-cased test, as the generation-time
\* resolvers do.
RECURSIVE find_endpoint_without_lowercase(_, _)
find_endpoint_without_lowercase(endpoints, function_name) ==
    IF Len(endpoints) = 0 THEN None
    ELSE IF \/ Contains(endpoints[1].uri, function_name)
            \/ Contains(endpoints[1].uri, kebab(function_name))
         THEN Some(endpoints[1].uri)
         ELSE find_endpoint_without_lowercase(Tail(endpoints), function_name)

\* A runtime resolver that, when nothing matches, falls back to the first
\* endpoint of the list, as the generation-time resolvers do.
find_endpoint_or_first(endpoints, function_name) ==
    LET found == find_endpoint_scan(endpoints, function_name, 1)
    IN  IF IsSome(found) THEN found
        ELSE IF Len(endpoints) > 0 THEN Some(endpoints[1].uri)
        ELSE None

\* LocoClient::find_endpoint_for_function (the runtime resolver).
find_endpoint_for_function(endpoints, function_name) ==
    find_endpoint_scan(endpoints, function_name, 1)

\* build_endpoint_map: uri -> methods, for the entries that have a string uri;
\* a repeated uri keeps the methods of its last entry.
RECURSIVE build_endpoint_map_from(_, _)
build_endpoint_map_from(values, map) ==
    IF Len(values) = 0 THEN map
    ELSE LET entry == Head(values)
             uri == as_str(Get(entry, "uri"))
             methods == as_array(Get(entry, "methods"))
         IN  build_endpoint_map_from(Tail(values),
                IF IsSome(uri)
                THEN Insert(map, Unwrap(uri),
                            IF IsSome(methods) THEN string_elements(Unwrap(methods)) ELSE <<>>)
                ELSE map)

build_endpoint_map(values) == build_endpoint_map_from(values, EmptyMap)

\* The `for uri in endpoints.keys()` loop of the generation-time resolvers,
\* with the keys yielded in the order `order`.
RECURSIVE gen_scan(_, _, _)
gen_scan(order, function_name, i) ==
    IF i > Len(order) THEN None
    ELSE IF \/ Contains(order[i], function_name)
            \/ Contains(order[i], kebab(function_name))
         THEN Some(order[i])
         ELSE gen_scan(order, function_name, i + 1)

\* find_endpoint_for_function of codegen_shared.rs: `endpoints` is the HashMap,
\* `order` the order in which this run's iteration yields its keys.
shared_find_endpoint_for_function(function_name, endpoints, order) ==
    LET scanned == gen_scan(order, function_name, 1)
        patterns == <<"/api/" \o kebab(function_name),
                      "/api/auth/" \o kebab(function_name),
                      "/auth/" \o kebab(function_name)>>
    IN  IF IsSome(scanned) THEN scanned
        ELSE IF patterns[1] \in DOMAIN endpoints THEN Some(patterns[1])
        ELSE IF patterns[2] \in DOMAIN endpoints THEN Some(patterns[2])
        ELSE IF patterns[3] \in DOMAIN endpoints THEN Some(patterns[3])
        ELSE IF Len(order) > 0 THEN Some(order[1])    \* endpoints.keys().next()
        ELSE None

\* find_endpoint_for_function of src/codegen.rs: the same loop, the same
\* patterns and the same fallback to the first key.
codegen_find_endpoint_for_function(function_name, endpoints, order) ==
    LET scanned == gen_scan(order, function_name, 1)
        patterns == <<"/api/" \o kebab(function_name),
                      "/api/auth/" \o kebab(function_name),
                      "/auth/" \o kebab(function_name)>>
    IN  IF IsSome(scanned) THEN scanned
        ELSE IF \E k \in 1..3 : patterns[k] \in DOMAIN endpoints
        THEN Some(patterns[CHOOSE k \in 1..3 :
                    /\ patterns[k] \in DOMAIN endpoints
                    /\ \A m \in 1..(k - 1) : patterns[m] \notin DOMAIN endpoints])
        ELSE IF Len(order) > 0 THEN Some(order[1])
        ELSE None

(***************************************************************************)
(* LocoClient::call_endpoint                                               *)
(***************************************************************************)
\* The query pairs of a read: (k, stringify_value(v)) for each member.
RECURSIVE query_pairs(_)
query_pairs(obj) ==
    IF Len(obj) = 0 THEN <<>>
    ELSE <<<<obj[1][1], stringify_value(obj[1][2])>>>> \o query_pairs(Tail(obj))

\* A build_request that attaches the body of a POST only for object params,
\* the test the GET branch applies to its query.
build_request_object_body_only(addr, endpoint, is_mutation, params) ==
    LET url == base_url(addr) \o "/api" \o endpoint
    IN  IF is_mutation
        THEN [method |-> "POST", url |-> url, query |-> <<>>,
              body |-> IF IsSome(params) /\ Unwrap(params).t = "obj" THEN params ELSE None]
        ELSE [method |-> "GET", url |-> url,
              query |-> IF IsSome(params) /\ Unwrap(params).t = "obj"
                        THEN query_pairs(Unwrap(params).o)
                        ELSE <<>>,
              body |-> None]

\* The request call_endpoint builds and sends: a POST whose JSON body is
\* params when it is Some, or a GET whose query holds the members of an
\* object params.
build_request(addr, endpoint, is_mutation, params) ==
    LET temp_endpoint == "/api" \o endpoint
        url == base_url(addr) \o temp_endpoint
    IN  IF is_mutation
        THEN [method |-> "POST", url |-> url, query |-> <<>>, body |-> params]
        ELSE [method |-> "GET", url |-> url,
              query |-> IF IsSome(params) /\ Unwrap(params).t = "obj"
                        THEN query_pairs(Unwrap(params).o)
                        ELSE <<>>,
              body |-> None]

\* The JSON values a response body of the model can encode.
ResponseValues ==
    {JObj(<<<<"ok", JBool(TRUE)>>>>), JNum(42), JStr("pong"), JNull, JArr(<<JNum(1)>>)}

\* serde_json's parser on a body text: the value whose JSON text it is.
parse_json(text) ==
    IF \E v \in ResponseValues : JsonText(v) = text
    THEN Some(CHOOSE v \in ResponseValues : JsonText(v) = text)
    ELSE None

\* reqwest's Response::json::<Value>(): reads the body and parses it; both
\* failures are a reqwest::Error, which RpcClientError::from turns into
\* RequestError (the only From<reqwest::Error>).
response_json(response) ==
    IF IsNone(response.text)
    THEN Err(RequestError("error decoding response body"))
    ELSE IF IsNone(parse_json(Unwrap(response.text)))
    THEN Err(RequestError("error decoding response body"))
    ELSE Ok(Unwrap(parse_json(Unwrap(response.text))))

\* A call_endpoint_result whose ServerError message leaves out the body text.
call_endpoint_result_without_body(endpoint, response) ==
    IF ~response.sent
    THEN Err(RequestError("error sending request"))
    ELSE IF ~is_success(response.status)
    THEN Err(ServerError("Endpoint " \o endpoint \o " failed with status "
                         \o StatusText(response.status)))
    ELSE response_json(response)

\* What call_endpoint returns for the outcome `response` of its request:
\*   sent = FALSE   send() failed;   text = None   reading the body failed.
call_endpoint_result(endpoint, response) ==
    IF ~response.sent
    THEN Err(RequestError("error sending request"))
    ELSE IF ~is_success(response.status)
    THEN LET error_text == unwrap_or(response.text, "Unknown error")
         IN  Err(ServerError("Endpoint " \o endpoint \o " failed with status "
                             \o StatusText(response.status) \o ": " \o error_text))
    ELSE response_json(response)

(***************************************************************************)
(* The inputs of the model                                                 *)
(***************************************************************************)
SeqsUpTo(S, n) == UNION {[1..k -> S] : k \in 0..n}

ServerAddrs == {[ip |-> "localhost", port |-> 5150], [ip |-> "127.0.0.1", port |-> 8080]}

\* Entries of the "functions" array of a metadata document.
FunctionEntry(function_name, is_mutation, input_type_name, output_type_name) ==
    JObj(<<<<"function_name", function_name>>,
           <<"input_schema_json", JNull>>,
           <<"input_type_name", input_type_name>>,
           <<"is_async", JBool(TRUE)>>,
           <<"is_mutation", is_mutation>>,
           <<"output_schema_json", JNull>>,
           <<"output_type_name", output_type_name>>,
           <<"params", JArr(<<>>)>>>>)

FunctionEntries ==
    {FunctionEntry(JStr("login"), JBool(TRUE), JStr("LoginRequest"), JStr("AuthResponse")),
     FunctionEntry(JStr("login"), JNull, JNull, JStr("Session")),
     FunctionEntry(JStr("reg_user"), JBool(FALSE), JStr("RegisterRequest"), JStr("AuthResponse")),
     FunctionEntry(JNull, JBool(TRUE), JNull, JStr("AuthResponse")),
     JObj(<<<<"function_name", JStr("health")>>, <<"is_mutation", JBool(FALSE)>>>>)}

\* Entries of the "endpoints_discovery" array.
EndpointEntry(uri, methods) == JObj(<<<<"methods", methods>>, <<"uri", uri>>>>)

EndpointEntries ==
    {EndpointEntry(JStr("/auth/login"), JArr(<<JStr("POST")>>)),
     EndpointEntry(JStr("/api/reg-user"), JArr(<<JStr("GET"), JNum(7), JStr("POST")>>)),
     JObj(<<<<"methods", JArr(<<JStr("GET")>>)>>>>),
     EndpointEntry(JStr("/api/health"), JStr("GET"))}

MetadataDocument(fs, es, off) ==
    JObj(<<<<"endpoints_discovery", JArr(es)>>,
           <<"functions", JArr(fs)>>,
           <<"total_endpoints", JNum(Len(es) + off)>>,
           <<"total_functions", JNum(Len(fs) + off)>>>>)

\* The documents of the model: every combination of entries with counters that
\* agree with the arrays, and one document whose counters disagree.
MetadataDocuments ==
    {MetadataDocument(fs, es, 0) :
        fs \in SeqsUpTo(FunctionEntries, MaxFunctions),
        es \in SeqsUpTo(EndpointEntries, MaxEndpoints)}
    \cup {MetadataDocument(<<>>, <<EndpointEntry(JStr("/auth/login"), JArr(<<JStr("POST")>>))>>, 1)}

\* What the server may do with the metadata request: no connection; a status
\* with an unreadable body; a non-2xx status; a 200 whose body is not JSON, is
\* JSON without the required members, or is a document.  Bodies whose byte 500
\* is no character boundary: one that is not JSON and one that is a document.
MetadataResponses ==
    {[sent |-> FALSE, status |-> 0, text |-> None]}
    \cup {[sent |-> TRUE, status |-> st, text |-> None] : st \in {200, 404, 500}}
    \cup {[sent |-> TRUE, status |-> 200,
           text |-> Some([char_boundary |-> TRUE, json |-> j])] :
             j \in {None, Some(JObj(<<<<"functions", JArr(<<>>)>>>>))}
                   \cup {Some(d) : d \in MetadataDocuments}}
    \cup {[sent |-> TRUE, status |-> 200,
           text |-> Some([char_boundary |-> FALSE, json |-> j])] :
             j \in {None, Some(MetadataDocument(<<>>, <<>>, 0))}}

\* The tasks that hold a shared reference to the client.
Callers == {"c1", "c2"}

FunctionNames == {"login", "reg_user", "missing_fn"}

EndpointPaths == {"/health", "/api/login"}

CallParams ==
    {None,
     Some(JStr("x")),
     Some(JObj(<<>>)),
     Some(JObj(<<<<"n", JNum(12)>>, <<"name", JStr("a")>>, <<"verbose", JBool(TRUE)>>>>)),
     Some(JObj(<<<<"d", JNull>>,
                 <<"e", JArr(<<JNum(1), JStr("s")>>)>>,
                 <<"f", JObj(<<<<"g", JBool(FALSE)>>>>)>>>>))}

\* What the server may do with the request of a call.
CallResponses ==
    {[sent |-> FALSE, status |-> 0, text |-> None],
     [sent |-> TRUE, status |-> 200, text |-> Some("{\"ok\":true}")],
     [sent |-> TRUE, status |-> 201, text |-> Some("42")],
     [sent |-> TRUE, status |-> 200, text |-> Some("not json")],
     [sent |-> TRUE, status |-> 200, text |-> None],
     [sent |-> TRUE, status |-> 404, text |-> Some("not found")],
     [sent |-> TRUE, status |-> 500, text |-> Some("{\"ok\":true}")],
     [sent |-> TRUE, status |-> 500, text |-> None]}

(***************************************************************************)
(* The dispatcher as a state machine                                       *)
(***************************************************************************)
IdleCall ==
    [pc |-> "idle", op |-> "none", function_name |-> "", endpoint |-> "",
     is_mutation |-> FALSE, params |-> None, requests |-> <<>>,
     response |-> None, result |-> None]

\* The resolutions of one resolver on one input: the result of the first
\* resolution and the result of the latest one.
NoRuns == [first |-> None, last |-> None]

Ran(runs, result) ==
    [first |-> IF IsNone(runs.first) THEN Some(result) ELSE runs.first,
     last  |-> Some(result)]

NoResolverRun ==
    [function_name |-> "", endpoints |-> <<>>, generator |-> "none",
     runtime |-> NoRuns, shared |-> NoRuns, codegen |-> NoRuns]

\* No generator has been started; no schema is being transmitted.
NoGeneration == [pc |-> "none"]

NoCodecRun == [pc |-> "none"]

\* The server process has not started: the cell is empty and no task has
\* called the registry.
NoRegistry == [cell |-> None, tasks |-> <<>>, gets |-> <<>>, registrations |-> <<>>, started |-> 0]

Init ==
    /\ pc = "uninit"
    /\ server_addr = [ip |-> "", port |-> 0]
    /\ functions = EmptyMap
    /\ endpoints_discovery = <<>>
    /\ init_call = [request |-> None, response |-> None, fetched |-> None, returned |-> None,
                    panic |-> None]
    /\ calls = [c \in Callers |-> IdleCall]
    /\ resolver = NoResolverRun
    /\ generation = NoGeneration
    /\ codec = NoCodecRun
    /\ registry = NoRegistry

\* What init returns after fetch_metadata returned `fetched`: Ok(client) in
\* both arms of the match.
init_return(fetched) ==
    IF fetched.ok THEN Ok("client") ELSE Ok("client")

\* LocoClient::init(server_addr).  init_call.response is the answer the server
\* is set to give to the metadata request in runs that fix it beforehand; init
\* leaves it as it is.
init(addr, response, debug_enabled) ==
    /\ pc = "uninit"
    /\ LET metadata_url == base_url(addr) \o "/_laz/metadata"
           request == [method |-> "GET", url |-> metadata_url, query |-> <<>>, body |-> None]
           fetch == fetch_metadata(response, debug_enabled)
       IN  IF IsNone(fetch.result)
           THEN /\ pc' = "panicked"
                /\ init_call' = [request |-> Some(request), response |-> init_call.response,
                                 fetched |-> None, returned |-> None,
                                 panic |-> Some("byte index 500 is not a char boundary")]
                /\ UNCHANGED <<server_addr, functions, endpoints_discovery>>
           ELSE /\ pc' = "ready"
                /\ server_addr' = addr
                /\ functions' = fetch.functions
                /\ endpoints_discovery' = fetch.endpoints_discovery
                /\ init_call' = [request |-> Some(request), response |-> init_call.response,
                                 fetched |-> fetch.result,
                                 returned |-> Some(init_return(Unwrap(fetch.result))),
                                 panic |-> None]
    /\ UNCHANGED <<calls, resolver, generation, codec, registry>>

snapshot == <<server_addr, functions, endpoints_discovery>>

\* A caller may start an invocation when the client exists and its previous
\* invocation has returned.
CanInvoke(c) == pc = "ready" /\ calls[c].pc # "awaiting"

Returned(c, op, function_name, params, result) ==
    calls' = [calls EXCEPT ![c] =
        [pc |-> "returned", op |-> op, function_name |-> function_name, endpoint |-> "",
         is_mutation |-> FALSE, params |-> params, requests |-> <<>>,
         response |-> None, result |-> Some(result)]]

\* A send_request that keeps one request builder on the client: while another
\* invocation is in flight, the new request is built from that invocation's
\* params.
send_request_sharing_builder(c, op, function_name, endpoint, is_mutation, params) ==
    LET in_flight == {d \in DOMAIN calls : d # c /\ calls[d].pc = "awaiting"}
        used == IF in_flight = {} THEN params
                ELSE calls[CHOOSE d \in in_flight : TRUE].params
    IN  calls' = [calls EXCEPT ![c] =
            [pc |-> "awaiting", op |-> op, function_name |-> function_name,
             endpoint |-> endpoint, is_mutation |-> is_mutation, params |-> params,
             requests |-> <<build_request(server_addr, endpoint, is_mutation, used)>>,
             response |-> None, result |-> None]]

\* call_endpoint up to `request.send().await`: the request is built and sent.
send_request(c, op, function_name, endpoint, is_mutation, params) ==
    calls' = [calls EXCEPT ![c] =
        [pc |-> "awaiting", op |-> op, function_name |-> function_name,
         endpoint |-> endpoint, is_mutation |-> is_mutation, params |-> params,
         requests |-> <<build_request(server_addr, endpoint, is_mutation, params)>>,
         response |-> None, result |-> None]]

\* A call_function that, when no endpoint resolves, calls the path
\* "/" + function_name as the generated stubs do.
call_function_with_fallback_path(c, op, function_name, params) ==
    IF function_name \notin DOMAIN functions
    THEN Returned(c, op, function_name, params, Err(FunctionNotFound(function_name)))
    ELSE LET endpoint == find_endpoint_for_function(endpoints_discovery, function_name)
         IN  send_request(c, op, function_name,
                          IF IsSome(endpoint) THEN Unwrap(endpoint) ELSE "/" \o function_name,
                          functions[function_name].is_mutation, params)

\* A call_function that takes the verb from the methods the discovery entry
\* of the resolved endpoint lists, POST when POST is among them.
call_function_verb_from_methods(c, op, function_name, params) ==
    IF function_name \notin DOMAIN functions
    THEN Returned(c, op, function_name, params, Err(FunctionNotFound(function_name)))
    ELSE LET endpoint == find_endpoint_for_function(endpoints_discovery, function_name)
         IN  IF IsNone(endpoint)
             THEN Returned(c, op, function_name, params,
                           Err(FunctionNotFound("No endpoint found for function: "
                                                \o function_name)))
             ELSE send_request(c, op, function_name, Unwrap(endpoint),
                               \E i \in 1..Len(endpoints_discovery) :
                                   /\ endpoints_discovery[i].uri = Unwrap(endpoint)
                                   /\ \E m \in 1..Len(endpoints_discovery[i].methods) :
                                          endpoints_discovery[i].methods[m] = "POST",
                               params)

\* call_function up to the await inside call_endpoint.
call_function_from(c, op, function_name, params) ==
    IF function_name \notin DOMAIN functions
    THEN Returned(c, op, function_name, params, Err(FunctionNotFound(function_name)))
    ELSE LET function == functions[function_name]
             endpoint == find_endpoint_for_function(endpoints_discovery, function_name)
         IN  IF IsNone(endpoint)
             THEN Returned(c, op, function_name, params,
                           Err(FunctionNotFound("No endpoint found for function: "
                                                \o function_name)))
             ELSE send_request(c, op, function_name, Unwrap(endpoint),
                               function.is_mutation, params)

\* LocoClient::call_function(function_name, params)
call_function(c, function_name, params) ==
    /\ CanInvoke(c)
    /\ call_function_from(c, "call_function", function_name, params)
    /\ UNCHANGED <<pc, snapshot, init_call, resolver, generation, codec, registry>>

\* LocoClient::call_endpoint(endpoint, is_mutation, params)
call_endpoint(c, endpoint, is_mutation, params) ==
    /\ CanInvoke(c)
    /\ send_request(c, "call_endpoint", "", endpoint, is_mutation, params)
    /\ UNCHANGED <<pc, snapshot, init_call, resolver, generation, codec, registry>>

\* LocoClient::call_with_input(function_name, input): `serialized` is what
\* serde_json::to_value(input) yields, None when T's Serialize fails.
call_with_input(c, function_name, serialized) ==
    /\ CanInvoke(c)
    /\ IF IsNone(serialized)
       THEN Returned(c, "call_with_input", function_name, None,
                     Err(JsonError("serialization failed")))
       ELSE call_function_from(c, "call_with_input", function_name, serialized)
    /\ UNCHANGED <<pc, snapshot, init_call, resolver, generation, codec, registry>>

\* A response handler that drops the loaded metadata when the call failed.
call_endpoint_response_dropping_metadata(c, response) ==
    /\ pc = "ready"
    /\ calls[c].pc = "awaiting"
    /\ calls' = [calls EXCEPT ![c].pc = "returned",
                              ![c].response = Some(response),
                              ![c].result = Some(call_endpoint_result(calls[c].endpoint, response))]
    /\ IF call_endpoint_result(calls[c].endpoint, response).ok
       THEN UNCHANGED <<functions, endpoints_discovery>>
       ELSE functions' = EmptyMap /\ endpoints_discovery' = <<>>
    /\ UNCHANGED <<pc, server_addr, init_call, resolver, generation, codec, registry>>

\* A response handler that sends the request a second time when the first
\* attempt failed.
call_endpoint_response_retrying(c, response) ==
    /\ pc = "ready"
    /\ calls[c].pc = "awaiting"
    /\ IF ~call_endpoint_result(calls[c].endpoint, response).ok /\ Len(calls[c].requests) < 2
       THEN calls' = [calls EXCEPT ![c].requests = Append(@, @[1])]
       ELSE calls' = [calls EXCEPT ![c].pc = "returned",
                                   ![c].response = Some(response),
                                   ![c].result = Some(call_endpoint_result(calls[c].endpoint, response))]
    /\ UNCHANGED <<pc, snapshot, init_call, resolver, generation, codec, registry>>

\* call_endpoint from the response on: the awaited send() completes with
\* `response` and the call returns.
call_endpoint_response(c, response) ==
    /\ pc = "ready"
    /\ calls[c].pc = "awaiting"
    /\ calls' = [calls EXCEPT ![c].pc = "returned",
                              ![c].response = Some(response),
                              ![c].result = Some(call_endpoint_result(calls[c].endpoint, response))]
    /\ UNCHANGED <<pc, snapshot, init_call, resolver, generation, codec, registry>>

\* LocoClient::get_function_names: the keys of the map, in the order the
\* HashMap happens to yield them.
get_function_names(c) ==
    /\ CanInvoke(c)
    /\ \E order \in KeyOrders(functions) :
          Returned(c, "get_function_names", "", None, order)
    /\ UNCHANGED <<pc, snapshot, init_call, resolver, generation, codec, registry>>

\* LocoClient::get_endpoints_discovery
get_endpoints_discovery(c) ==
    /\ CanInvoke(c)
    /\ Returned(c, "get_endpoints_discovery", "", None, endpoints_discovery)
    /\ UNCHANGED <<pc, snapshot, init_call, resolver, generation, codec, registry>>

\* LocoClient::get_function_metadata(function_name)
get_function_metadata(c, function_name) ==
    /\ CanInvoke(c)
    /\ Returned(c, "get_function_metadata", function_name, None,
                IF function_name \in DOMAIN functions
                THEN Some(functions[function_name]) ELSE None)
    /\ UNCHANGED <<pc, snapshot, init_call, resolver, generation, codec, registry>>

\* The steps of the dispatcher with the inputs drawn from the given sets:
\* server addresses, the callers that invoke, metadata responses, function
\* names, endpoint paths, params, call responses.
ClientNext(SA, CS, MR, FN, EP, CP, CR) ==
    \/ \E addr \in SA, response \in MR, debug_enabled \in BOOLEAN :
          init(addr, response, debug_enabled)
    \/ \E c \in CS, function_name \in FN, params \in CP :
          call_function(c, function_name, params)
    \/ \E c \in CS, endpoint \in EP, is_mutation \in BOOLEAN, params \in CP :
          call_endpoint(c, endpoint, is_mutation, params)
    \/ \E c \in CS, function_name \in FN,
          serialized \in {None, Some(JObj(<<<<"name", JStr("a")>>>>))} :
          call_with_input(c, function_name, serialized)
    \/ \E c \in CS, response \in CR :
          call_endpoint_response(c, response)
    \/ \E c \in CS : get_function_names(c)
    \/ \E c \in CS : get_endpoints_discovery(c)
    \/ \E c \in CS, function_name \in FN :
          get_function_metadata(c, function_name)

\* Every outcome of the metadata fetch, followed by a few calls.
Next ==
    ClientNext({[ip |-> "localhost", port |-> 5150]}, {"c1"},
               MetadataResponses, FunctionNames, {"/health"}, {None},
               {r \in CallResponses : ~r.sent \/ r.text \in {Some("{\"ok\":true}"), Some("not found")}})

Spec == Init /\ [][Next]_vars

\* A client whose metadata request is answered with a document fixed at the
\* start of the run: the documents of the model, and one with a duplicated
\* function name whose counters disagree with its arrays.
FetchMetadataResponses ==
    {[sent |-> TRUE, status |-> 200, text |-> Some([char_boundary |-> TRUE, json |-> Some(d)])] :
        d \in MetadataDocuments \cup
              {MetadataDocument(
                  <<FunctionEntry(JStr("login"), JBool(TRUE), JStr("LoginRequest"), JStr("AuthResponse")),
                    FunctionEntry(JStr("login"), JNull, JNull, JStr("Session"))>>,
                  <<EndpointEntry(JStr("/api/reg-user"), JArr(<<JStr("GET"), JNum(7), JStr("POST")>>)),
                    EndpointEntry(JStr("/auth/login"), JArr(<<JStr("POST")>>))>>, 1)}}

InitFetch ==
    /\ pc = "uninit"
    /\ server_addr = [ip |-> "", port |-> 0]
    /\ functions = EmptyMap
    /\ endpoints_discovery = <<>>
    /\ \E response \in FetchMetadataResponses :
          init_call = [request |-> None, response |-> Some(response), fetched |-> None,
                       returned |-> None, panic |-> None]
    /\ calls = [c \in Callers |-> IdleCall]
    /\ resolver = NoResolverRun
    /\ generation = NoGeneration
    /\ codec = NoCodecRun
    /\ registry = NoRegistry

\* init with the fixed answer, then the accessors that show the snapshot.
NextFetch ==
    \/ \E debug_enabled \in BOOLEAN :
          init([ip |-> "localhost", port |-> 5150], Unwrap(init_call.response), debug_enabled)
    \/ get_function_names("c1")
    \/ get_endpoints_discovery("c1")

SpecFetch == InitFetch /\ [][NextFetch]_vars

\* A few metadata documents, followed by every call.
CallMetadataResponses ==
    {[sent |-> TRUE, status |-> 500, text |-> None]}
    \cup {[sent |-> TRUE, status |-> 200,
           text |-> Some([char_boundary |-> TRUE, json |-> Some(MetadataDocument(fs, es, 0))])] :
             fs \in {<<FunctionEntry(JStr("login"), JBool(TRUE), JStr("LoginRequest"), JStr("AuthResponse")),
                       FunctionEntry(JStr("reg_user"), JBool(FALSE), JNull, JStr("AuthResponse"))>>},
             es \in {<<EndpointEntry(JStr("/auth/login"), JArr(<<JStr("POST")>>))>>,
                     <<EndpointEntry(JStr("/api/reg-user"), JArr(<<JStr("GET")>>)),
                       EndpointEntry(JStr("/auth/login"), JArr(<<JStr("POST")>>))>>,
                     <<EndpointEntry(JStr("/api/reg-user"), JArr(<<JStr("POST")>>)),
                       EndpointEntry(JStr("/auth/login"), JArr(<<JStr("GET")>>))>>}}

NextCalls ==
    ClientNext(ServerAddrs, {"c1"},
               CallMetadataResponses, FunctionNames, EndpointPaths, CallParams, CallResponses)

SpecCalls == Init /\ [][NextCalls]_vars

\* One loaded client shared by two tasks whose invocations interleave freely.
ConcurrentMetadataResponses ==
    {[sent |-> TRUE, status |-> 200,
      text |-> Some([char_boundary |-> TRUE, json |-> Some(MetadataDocument(
          <<FunctionEntry(JStr("login"), JBool(TRUE), JStr("LoginRequest"), JStr("AuthResponse")),
            FunctionEntry(JStr("reg_user"), JBool(FALSE), JNull, JStr("AuthResponse"))>>,
          <<EndpointEntry(JStr("/auth/login"), JArr(<<JStr("POST")>>))>>, 0))])]}

NextConcurrent ==
    ClientNext({[ip |-> "localhost", port |-> 5150]}, Callers,
               ConcurrentMetadataResponses, {"login", "reg_user"}, {"/health"},
               {None, Some(JObj(<<<<"name", JStr("a")>>>>))},
               {r \in CallResponses : ~r.sent \/ r.text \in {Some("{\"ok\":true}"), Some("not found")}})

SpecConcurrent == Init /\ [][NextConcurrent]_vars

(***************************************************************************)
(* The resolvers run on one input: a function name and the                 *)
(* "endpoints_discovery" array of a metadata document.                     *)
(***************************************************************************)
ResolverNames == {"login", "register_user", "Ping", "missing_fn"}

ResolverUris ==
    {"/api/auth/login", "/api/health", "/api/register-user", "/ping", "/api/Ping",
     "/relogin", "/api/missing-fn"}

\* `generator` is the generator that processes the document: the build script
\* (codegen_shared.rs) or the macro crate (src/codegen.rs).
ResolverInputs ==
    [function_name : ResolverNames,
     generator : {"codegen_shared", "codegen"},
     endpoints : SeqsUpTo({EndpointEntry(JStr(u), JArr(<<JStr("GET")>>)) : u \in ResolverUris},
                          MaxResolverEndpoints),
     runtime : {NoRuns}, shared : {NoRuns}, codegen : {NoRuns}]

InitResolver ==
    /\ pc = "uninit"
    /\ server_addr = [ip |-> "", port |-> 0]
    /\ functions = EmptyMap
    /\ endpoints_discovery = <<>>
    /\ init_call = [request |-> None, response |-> None, fetched |-> None, returned |-> None,
                    panic |-> None]
    /\ calls = [c \in Callers |-> IdleCall]
    /\ resolver \in ResolverInputs
    /\ generation = NoGeneration
    /\ codec = NoCodecRun
    /\ registry = NoRegistry

\* The endpoint list a client holds after loading the array.
loaded_endpoints(values) == store_endpoints(values, <<>>).endpoints_discovery

\* The runtime resolver on the loaded endpoint list.
resolve_runtime ==
    /\ resolver' = [resolver EXCEPT !.runtime =
          Ran(@, find_endpoint_for_function(loaded_endpoints(resolver.endpoints),
                                            resolver.function_name))]
    /\ UNCHANGED <<client_vars, generation, codec, registry>>

\* generate_dynamic_typed_client's resolution (codegen_shared.rs): the map is
\* built from the array and one iteration order is drawn for this run.
resolve_shared ==
    /\ resolver.generator = "codegen_shared"
    /\ LET endpoint_map == build_endpoint_map(resolver.endpoints)
       IN  \E order \in KeyOrders(endpoint_map) :
              resolver' = [resolver EXCEPT !.shared =
                  Ran(@, shared_find_endpoint_for_function(resolver.function_name,
                                                           endpoint_map, order))]
    /\ UNCHANGED <<client_vars, generation, codec, registry>>

\* generate_client_impl's resolution (src/codegen.rs).
resolve_codegen ==
    /\ resolver.generator = "codegen"
    /\ LET endpoint_map == build_endpoint_map(resolver.endpoints)
       IN  \E order \in KeyOrders(endpoint_map) :
              resolver' = [resolver EXCEPT !.codegen =
                  Ran(@, codegen_find_endpoint_for_function(resolver.function_name,
                                                            endpoint_map, order))]
    /\ UNCHANGED <<client_vars, generation, codec, registry>>

NextResolver == resolve_runtime \/ resolve_shared \/ resolve_codegen

SpecResolver == InitResolver /\ [][NextResolver]_vars

(***************************************************************************)
(* laz_types: TypeSchema and its wire format.  Serialize and Deserialize   *)
(* are derived with #[serde(tag = "kind", content = "value")]: a value is  *)
(* written as the object {"kind": <variant>, "value": <payload>}.          *)
(***************************************************************************)
Primitive(name) == [kind |-> "Primitive", name |-> name]
Struct(type_name, fields) == [kind |-> "Struct", type_name |-> type_name, fields |-> fields]
FieldSchema(field_name, field_type, optional) ==
    [field_name |-> field_name, field_type |-> field_type, optional |-> optional]
Enum(type_name, variants) == [kind |-> "Enum", type_name |-> type_name, variants |-> variants]
VariantSchema(variant_name, inner_schema) ==
    [variant_name |-> variant_name, inner_schema |-> inner_schema]
Container(container_type, inner_type) ==
    [kind |-> "Container", container_type |-> container_type, inner_type |-> inner_type]
Tuple(items) == [kind |-> "Tuple", items |-> items]
Opaque(name) == [kind |-> "Opaque", name |-> name]

\* A serializer that writes the members of a Container next to "kind", without
\* the "value" wrapper.
RECURSIVE serialize_flat_container(_)
serialize_flat_container(schema) ==
    CASE schema.kind = "Container" ->
             JObj(<<<<"container_type", JStr(schema.container_type)>>,
                    <<"inner_type", serialize_flat_container(schema.inner_type)>>,
                    <<"kind", JStr("Container")>>>>)
      [] schema.kind = "Struct" ->
             JObj(<<<<"kind", JStr("Struct")>>,
                    <<"value", JObj(<<
                        <<"fields", JArr([i \in 1..Len(schema.fields) |->
                            JObj(<<<<"field_name", JStr(schema.fields[i].field_name)>>,
                                   <<"field_type", serialize_flat_container(schema.fields[i].field_type)>>,
                                   <<"optional", JBool(schema.fields[i].optional)>>>>)])>>,
                        <<"type_name", JStr(schema.type_name)>>>>)>>>>)
      [] schema.kind = "Enum" ->
             JObj(<<<<"kind", JStr("Enum")>>,
                    <<"value", JObj(<<
                        <<"type_name", JStr(schema.type_name)>>,
                        <<"variants", JArr([i \in 1..Len(schema.variants) |->
                            JObj(<<<<"inner_schema",
                                     IF IsSome(schema.variants[i].inner_schema)
                                     THEN serialize_flat_container(Unwrap(schema.variants[i].inner_schema))
                                     ELSE JNull>>,
                                   <<"variant_name", JStr(schema.variants[i].variant_name)>>>>)])>>>>)>>>>)
      [] schema.kind = "Tuple" ->
             JObj(<<<<"kind", JStr("Tuple")>>,
                    <<"value", JArr([i \in 1..Len(schema.items) |->
                                        serialize_flat_container(schema.items[i])])>>>>)
      [] OTHER ->
             JObj(<<<<"kind", JStr(schema.kind)>>, <<"value", JStr(schema.name)>>>>)

\* Serialize for TypeSchema, StructSchema, FieldSchema, EnumSchema and
\* VariantSchema: each struct is written as an object with one member per
\* field, a Box as its content, a Vec as an array, None as null.
RECURSIVE serialize_TypeSchema(_)
serialize_TypeSchema(schema) ==
    LET tagged(payload) == JObj(<<<<"kind", JStr(schema.kind)>>, <<"value", payload>>>>)
    IN  CASE schema.kind \in {"Primitive", "Opaque"} -> tagged(JStr(schema.name))
          [] schema.kind = "Struct" ->
                 tagged(JObj(<<
                     <<"fields", JArr([i \in 1..Len(schema.fields) |->
                         JObj(<<<<"field_name", JStr(schema.fields[i].field_name)>>,
                                <<"field_type", serialize_TypeSchema(schema.fields[i].field_type)>>,
                                <<"optional", JBool(schema.fields[i].optional)>>>>)])>>,
                     <<"type_name", JStr(schema.type_name)>>>>))
          [] schema.kind = "Enum" ->
                 tagged(JObj(<<
                     <<"type_name", JStr(schema.type_name)>>,
                     <<"variants", JArr([i \in 1..Len(schema.variants) |->
                         JObj(<<<<"inner_schema",
                                  IF IsSome(schema.variants[i].inner_schema)
                                  THEN serialize_TypeSchema(Unwrap(schema.variants[i].inner_schema))
                                  ELSE JNull>>,
                                <<"variant_name", JStr(schema.variants[i].variant_name)>>>>)])>>>>))
          [] schema.kind = "Container" ->
                 tagged(JObj(<<<<"container_type", JStr(schema.container_type)>>,
                               <<"inner_type", serialize_TypeSchema(schema.inner_type)>>>>))
          [] schema.kind = "Tuple" ->
                 tagged(JArr([i \in 1..Len(schema.items) |-> serialize_TypeSchema(schema.items[i])]))

\* Deserialize for TypeSchema: "kind" selects the variant and "value" is read
\* as its payload; a missing or mistyped member is an error (None), except a
\* missing Option member, which is read as None; other members are ignored.
RECURSIVE deserialize_TypeSchema(_)
deserialize_TypeSchema(json) ==
    LET kind == as_str(Get(json, "kind"))
        value == Get(json, "value")
        each(arr, read(_)) == [i \in 1..Len(arr) |-> read(arr[i])]
        all_some(results) == \A i \in 1..Len(results) : IsSome(results[i])
        unwrapped(results) == [i \in 1..Len(results) |-> Unwrap(results[i])]
        field(f) ==
            LET field_type == deserialize_TypeSchema(Get(f, "field_type"))
            IN  IF /\ Get(f, "field_name").t = "str"
                   /\ Get(f, "optional").t = "bool"
                   /\ Get(f, "field_type").t = "obj"
                   /\ IsSome(field_type)
                THEN Some(FieldSchema(Get(f, "field_name").s, Unwrap(field_type),
                                      Get(f, "optional").b))
                ELSE None
        variant(v) ==
            LET inner == Get(v, "inner_schema")
            IN  IF Get(v, "variant_name").t # "str" THEN None
                ELSE IF inner.t = "null"
                THEN Some(VariantSchema(Get(v, "variant_name").s, None))
                ELSE IF IsSome(deserialize_TypeSchema(inner))
                THEN Some(VariantSchema(Get(v, "variant_name").s,
                                        Some(Unwrap(deserialize_TypeSchema(inner)))))
                ELSE None
    IN  IF json.t # "obj" \/ IsNone(kind) THEN None
        ELSE CASE Unwrap(kind) \in {"Primitive", "Opaque"} ->
                      IF value.t = "str"
                      THEN Some([kind |-> Unwrap(kind), name |-> value.s])
                      ELSE None
               [] Unwrap(kind) = "Struct" ->
                      IF /\ Get(value, "type_name").t = "str"
                         /\ Get(value, "fields").t = "arr"
                         /\ all_some(each(Get(value, "fields").a, field))
                      THEN Some(Struct(Get(value, "type_name").s,
                                       unwrapped(each(Get(value, "fields").a, field))))
                      ELSE None
               [] Unwrap(kind) = "Enum" ->
                      IF /\ Get(value, "type_name").t = "str"
                         /\ Get(value, "variants").t = "arr"
                         /\ all_some(each(Get(value, "variants").a, variant))
                      THEN Some(Enum(Get(value, "type_name").s,
                                     unwrapped(each(Get(value, "variants").a, variant))))
                      ELSE None
               [] Unwrap(kind) = "Container" ->
                      IF /\ Get(value, "container_type").t = "str"
                         /\ Get(value, "inner_type").t = "obj"
                         /\ IsSome(deserialize_TypeSchema(Get(value, "inner_type")))
                      THEN Some(Container(Get(value, "container_type").s,
                                          Unwrap(deserialize_TypeSchema(Get(value, "inner_type")))))
                      ELSE None
               [] Unwrap(kind) = "Tuple" ->
                      IF /\ value.t = "arr"
                         /\ all_some(each(value.a, deserialize_TypeSchema))
                      THEN Some(Tuple(unwrapped(each(value.a, deserialize_TypeSchema))))
                      ELSE None
               [] OTHER -> None

\* The TypeSchema values nested at most `depth` deep.
SchemaLeaves == {Primitive("String"), Primitive("i32"), Opaque("Node")}

RECURSIVE SchemasOfDepth(_)
SchemasOfDepth(depth) ==
    IF depth = 0 THEN SchemaLeaves
    ELSE LET inner == SchemasOfDepth(depth - 1)
         IN  SchemaLeaves
             \cup {Container(ct, i) : ct \in {"Vec", "Option"}, i \in inner}
             \cup {Struct("User", <<>>)}
             \cup {Struct("User", <<FieldSchema("id", i, o)>>) : i \in inner, o \in BOOLEAN}
             \cup {Struct("Pair", <<FieldSchema("a", a, FALSE), FieldSchema("b", b, TRUE)>>) :
                      a \in SchemaLeaves, b \in SchemaLeaves}
             \cup {Enum("Role", <<>>), Enum("Role", <<VariantSchema("Admin", None)>>)}
             \cup {Enum("Role", <<VariantSchema("Admin", None), VariantSchema("Member", Some(i))>>) :
                      i \in inner}
             \cup {Tuple(<<>>)}
             \cup {Tuple(<<i>>) : i \in inner}
             \cup {Tuple(<<a, b>>) : a \in SchemaLeaves, b \in SchemaLeaves}

TypeSchemas == SchemasOfDepth(MaxSchemaDepth)

InitSchema ==
    /\ pc = "uninit"
    /\ server_addr = [ip |-> "", port |-> 0]
    /\ functions = EmptyMap
    /\ endpoints_discovery = <<>>
    /\ init_call = [request |-> None, response |-> None, fetched |-> None, returned |-> None,
                    panic |-> None]
    /\ calls = [c \in Callers |-> IdleCall]
    /\ resolver = NoResolverRun
    /\ generation = NoGeneration
    /\ codec \in {[pc |-> "value", schema |-> s, wire |-> None, decoded |-> None] :
                    s \in TypeSchemas}
    /\ registry = NoRegistry

\* The schema is serialized (serde_json::to_value).
schema_serialize ==
    /\ codec.pc = "value"
    /\ codec' = [codec EXCEPT !.pc = "wire",
                              !.wire = Some(serialize_TypeSchema(codec.schema))]
    /\ UNCHANGED <<client_vars, resolver, generation, registry>>

\* The wire value is deserialized (serde_json::from_value::<TypeSchema>).
schema_deserialize ==
    /\ codec.pc = "wire"
    /\ codec' = [codec EXCEPT !.pc = "decoded",
                              !.decoded = Some(deserialize_TypeSchema(Unwrap(codec.wire)))]
    /\ UNCHANGED <<client_vars, resolver, generation, registry>>

NextSchema == schema_serialize \/ schema_deserialize

SpecSchema == InitSchema /\ [][NextSchema]_vars

(***************************************************************************)
(* laz_client_macros: the type mappers.  A type definition, which the      *)
(* generators write as Rust text, is modelled by what the text defines:    *)
(*   form     "struct" (named members), "enum" (variants), "newtype" (a    *)
(*            one-field tuple struct), or "none" for the empty text        *)
(*   name     the name after `pub struct` / `pub enum`                     *)
(*   members  <<[name, type]>> of a struct, the type as Rust text          *)
(*   variants the variant names of an enum                                 *)
(*   inner    the type a newtype wraps                                     *)
(***************************************************************************)
NoDefinition ==
    [form |-> "none", name |-> "", members |-> <<>>, variants |-> <<>>, inner |-> ""]
StructDefinition(name, members) ==
    [form |-> "struct", name |-> name, members |-> members, variants |-> <<>>, inner |-> ""]
EnumDefinition(name, variants) ==
    [form |-> "enum", name |-> name, members |-> <<>>, variants |-> variants, inner |-> ""]
NewtypeDefinition(name, inner) ==
    [form |-> "newtype", name |-> name, members |-> <<>>, variants |-> <<>>, inner |-> inner]

\* The names the generators treat as Rust built-ins.
BuiltinNames == {"String", "i32", "i64", "bool", "f32", "f64"}

\* Value::get(key): whether an object has the member (a null member counts).
Has(v, key) == v.t = "obj" /\ \E i \in 1..Len(v.o) : v.o[i][1] = key

\* str::trim for text padded with spaces.
RECURSIVE Trim(_)
Trim(s) ==
    IF Len(s) = 0 THEN s
    ELSE IF SubSeq(s, 1, 1) = " " THEN Trim(SubSeq(s, 2, Len(s)))
    ELSE IF SubSeq(s, Len(s), Len(s)) = " " THEN Trim(SubSeq(s, 1, Len(s) - 1))
    ELSE s

\* get_rust_type_from_schema (codegen_shared.rs) and get_field_type_string
\* (types.rs), which have the same body: the Rust type text of a field.
RECURSIVE get_rust_type_from_schema(_)
get_rust_type_from_schema(field_type_info) ==
    LET kind == as_str(Get(field_type_info, "kind"))
    IN  IF kind = Some("Primitive")
        THEN LET s == as_str(Get(field_type_info, "value"))
             IN  IF IsSome(s) /\ Unwrap(s) \in BuiltinNames THEN Unwrap(s)
                 ELSE "serde_json::Value"
        ELSE IF kind = Some("Struct")
        THEN unwrap_or(as_str(Get(Get(field_type_info, "value"), "type_name")),
                       "serde_json::Value")
        ELSE IF kind = Some("Container")
        THEN LET container_type == as_str(Get(field_type_info, "container_type"))
             IN  IF IsSome(container_type) /\ Has(field_type_info, "inner_type")
                 THEN LET inner_type_str ==
                              get_rust_type_from_schema(Get(field_type_info, "inner_type"))
                      IN  IF Unwrap(container_type) = "Vec"
                          THEN "Vec<" \o inner_type_str \o ">"
                          ELSE IF Unwrap(container_type) = "Option"
                          THEN "Option<" \o inner_type_str \o ">"
                          ELSE "serde_json::Value"
                 ELSE "serde_json::Value"
        ELSE "serde_json::Value"

get_field_type_string(field_type_info) == get_rust_type_from_schema(field_type_info)

\* The member a struct definition gets for one field.
member(field_name, field_type, optional) ==
    [name |-> field_name,
     type |-> IF optional THEN "Option<" \o field_type \o ">" ELSE field_type]

\* The "fields" / "variants" array under "value", empty when there is none.
array_under_value(schema, key) ==
    IF Has(schema, "value") THEN unwrap_or(as_array(Get(Get(schema, "value"), key)), <<>>)
    ELSE <<>>

\* generate_struct_type_from_schema (codegen_shared.rs): the definition is
\* named `name`; a field without a string field_name or without a field_type
\* is left out.
generate_struct_type_from_schema(name, schema) ==
    LET fields == array_under_value(schema, "fields")
        usable(field) == IsSome(as_str(Get(field, "field_name"))) /\ Has(field, "field_type")
        kept == SelectSeq(fields, usable)
    IN  StructDefinition(name,
            [i \in 1..Len(kept) |->
                member(Get(kept[i], "field_name").s,
                       get_rust_type_from_schema(Get(kept[i], "field_type")),
                       unwrap_or(as_bool(Get(kept[i], "optional")), FALSE))])

\* generate_enum_type_from_schema (codegen_shared.rs)
generate_enum_type_from_schema(name, schema) ==
    LET variants == array_under_value(schema, "variants")
        named(variant) == IsSome(as_str(Get(variant, "variant_name")))
        kept == SelectSeq(variants, named)
    IN  EnumDefinition(name, [i \in 1..Len(kept) |-> Get(kept[i], "variant_name").s])

\* generate_basic_type (codegen_shared.rs)
shared_generate_basic_type(name) == NewtypeDefinition(name, "serde_json::Value")

\* generate_primitive_type_from_schema (codegen_shared.rs)
generate_primitive_type_from_schema(name, schema) ==
    LET value == IF Has(schema, "value") THEN as_str(Get(schema, "value")) ELSE None
    IN  IF IsNone(value) THEN shared_generate_basic_type(name)
        ELSE IF Unwrap(value) = name THEN NoDefinition
        ELSE IF Unwrap(value) \in {"String", "i32", "i64", "bool"}
        THEN NewtypeDefinition(name, Unwrap(value))
        ELSE shared_generate_basic_type(name)

\* generate_type_from_schema (codegen_shared.rs).  `schema_value` is what
\* serde_json::from_str made of the schema text: None when there is no text or
\* the text is not JSON.
shared_generate_type_from_schema(type_name, schema_value) ==
    IF type_name \in BuiltinNames THEN NoDefinition
    ELSE LET kind == IF IsSome(schema_value)
                     THEN as_str(Get(Unwrap(schema_value), "kind")) ELSE None
         IN  IF kind = Some("Struct")
             THEN generate_struct_type_from_schema(type_name, Unwrap(schema_value))
             ELSE IF kind = Some("Enum")
             THEN generate_enum_type_from_schema(type_name, Unwrap(schema_value))
             ELSE IF kind = Some("Primitive")
             THEN generate_primitive_type_from_schema(type_name, Unwrap(schema_value))
             ELSE shared_generate_basic_type(type_name)

\* generate_basic_type (types.rs)
types_generate_basic_type(name) == NewtypeDefinition(name, "serde_json::Value")

\* generate_struct_type (types.rs): the definition is named after the
\* schema's type_name, and after `name` only when the schema has none; a
\* missing "value", field_name or field_type is an error (None).
generate_struct_type(name, schema) ==
    IF ~Has(schema, "value") THEN None
    ELSE LET value == Get(schema, "value")
             type_name == unwrap_or(as_str(Get(value, "type_name")), name)
             fields == unwrap_or(as_array(Get(value, "fields")), <<>>)
         IN  IF \E i \in 1..Len(fields) :
                    \/ IsNone(as_str(Get(fields[i], "field_name")))
                    \/ ~Has(fields[i], "field_type")
             THEN None
             ELSE Some(StructDefinition(type_name,
                      [i \in 1..Len(fields) |->
                          member(Get(fields[i], "field_name").s,
                                 get_field_type_string(Get(fields[i], "field_type")),
                                 unwrap_or(as_bool(Get(fields[i], "optional")), FALSE))]))

\* generate_enum_type (types.rs)
generate_enum_type(name, schema) ==
    IF ~Has(schema, "value") THEN None
    ELSE LET value == Get(schema, "value")
             type_name == unwrap_or(as_str(Get(value, "type_name")), name)
             variants == unwrap_or(as_array(Get(value, "variants")), <<>>)
         IN  IF \E i \in 1..Len(variants) : IsNone(as_str(Get(variants[i], "variant_name")))
             THEN None
             ELSE Some(EnumDefinition(type_name,
                      [i \in 1..Len(variants) |-> Get(variants[i], "variant_name").s]))

\* generate_type_from_schema (types.rs): None when the text is not JSON
\* (`schema_value` is None) or the struct / enum generator failed.
types_generate_type_from_schema(name, schema_value) ==
    IF IsNone(schema_value) THEN None
    ELSE LET kind == as_str(Get(Unwrap(schema_value), "kind"))
         IN  IF kind = Some("Struct") THEN generate_struct_type(name, Unwrap(schema_value))
             ELSE IF kind = Some("Enum") THEN generate_enum_type(name, Unwrap(schema_value))
             ELSE Some(types_generate_basic_type(name))

(***************************************************************************)
(* laz_client_macros: the wrapper emitters.  A wrapper is modelled by its  *)
(* signature and its call: name, param (the parameter type, if any),       *)
(* result (the T of Result<T, RpcClientError>), payload ("Some" or "None": *)
(* what it passes as params), via (the dispatcher method it calls),        *)
(* endpoint and is_mutation as written into the call.                      *)
(***************************************************************************)
\* generate_typed_function_impl (codegen_shared.rs)
generate_typed_function_impl(func_name, is_mutation, input_type_name, output_type_name, endpoint) ==
    LET output_type == IF Len(Trim(output_type_name)) = 0 THEN "()" ELSE output_type_name
        with_param == IsSome(input_type_name) /\ Len(Unwrap(input_type_name)) > 0
    IN  [name |-> func_name,
         param |-> IF with_param THEN input_type_name ELSE None,
         result |-> output_type,
         payload |-> IF with_param THEN "Some" ELSE "None",
         via |-> "call_endpoint",
         endpoint |-> endpoint,
         is_mutation |-> is_mutation]

\* generate_typed_function_signature and generate_typed_function_body
\* (types.rs): both branch on input_type_name being Some.
generate_typed_function(func_name, is_mutation, input_type_name, output_type_name) ==
    [name |-> func_name,
     param |-> input_type_name,
     result |-> IF Len(output_type_name) = 0 THEN "()" ELSE output_type_name,
     payload |-> IF IsSome(input_type_name) THEN "Some" ELSE "None",
     via |-> "call_function",
     endpoint |-> "",
     is_mutation |-> is_mutation]

\* generate_function_impl (src/codegen.rs): untyped, through call_function.
generate_function_impl(func, endpoint) ==
    [name |-> func.function_name,
     param |-> IF IsSome(func.input_type_name) THEN Some("serde_json::Value") ELSE None,
     result |-> "serde_json::Value",
     payload |-> IF IsSome(func.input_type_name) THEN "Some" ELSE "None",
     via |-> "call_function",
     endpoint |-> endpoint,
     is_mutation |-> func.is_mutation]

(***************************************************************************)
(* A generator run on one metadata document                                *)
(***************************************************************************)
\* The schemas the server publishes, as TypeSchema values.
LoginRequestSchema ==
    Struct("LoginRequest",
           <<FieldSchema("username", Primitive("String"), FALSE),
             FieldSchema("tags", Container("Vec", Primitive("String")), FALSE),
             FieldSchema("nick", Container("Option", Container("Vec", Primitive("i64"))), TRUE)>>)
AuthResponseSchema == Struct("AuthResponse", <<FieldSchema("token", Primitive("String"), FALSE)>>)
RoleSchema ==
    Enum("Role", <<VariantSchema("Admin", None), VariantSchema("Member", Some(Primitive("i32")))>>)
ASchema == Struct("A", <<FieldSchema("b", Struct("B", <<>>), FALSE)>>)
BSchema == Struct("B", <<FieldSchema("a", Struct("A", <<>>), FALSE)>>)

\* A struct that refers to itself by name: once as the custom-type Primitive
\* the derive macro writes for a field of a named type, once through a
\* container written with its members beside "kind", the shape the type
\* mappers read.
NodeSchemaValue ==
    JObj(<<<<"kind", JStr("Struct")>>,
           <<"value", JObj(<<
               <<"fields", JArr(<<
                   JObj(<<<<"field_name", JStr("parent")>>,
                          <<"field_type", serialize_TypeSchema(Primitive("Node"))>>,
                          <<"optional", JBool(FALSE)>>>>),
                   JObj(<<<<"field_name", JStr("next")>>,
                          <<"field_type",
                            JObj(<<<<"container_type", JStr("Option")>>,
                                   <<"inner_type", serialize_TypeSchema(Struct("Node", <<>>))>>,
                                   <<"kind", JStr("Container")>>>>)>>,
                          <<"optional", JBool(FALSE)>>>>)>>)>>,
               <<"type_name", JStr("Node")>>>>)>>>>)

\* The JSON values whose text occurs as a schema text in the documents.
GenSchemaValues ==
    {serialize_TypeSchema(s) :
        s \in {LoginRequestSchema, AuthResponseSchema, RoleSchema, ASchema, BSchema,
               Primitive("String"), Primitive("i32"), Primitive("f64")}}
    \cup {NodeSchemaValue}

\* serde_json::from_str::<Value> on a schema text: the value whose text it
\* is, tabulated for the schema texts of the documents; any other text is not
\* JSON.
ParsedSchemaTexts ==
    [text \in {JsonText(v) : v \in GenSchemaValues} |->
        CHOOSE v \in GenSchemaValues : JsonText(v) = text]

parse_schema_text(text) ==
    IF text \in DOMAIN ParsedSchemaTexts THEN Some(ParsedSchemaTexts[text]) ELSE None

\* serde_json::to_string(schema) as the server writes it into the document.
SchemaText(schema) == JStr(JsonText(serialize_TypeSchema(schema)))

GenFunctionEntry(function_name, is_mutation, input_type, input_schema, output_type, output_schema) ==
    JObj(<<<<"function_name", function_name>>,
           <<"input_schema_json", input_schema>>,
           <<"input_type_name", input_type>>,
           <<"is_async", JBool(TRUE)>>,
           <<"is_mutation", is_mutation>>,
           <<"output_schema_json", output_schema>>,
           <<"output_type_name", output_type>>,
           <<"params", JArr(<<>>)>>>>)

\* The function entries of the documents: types shared between functions, a
\* schema whose type_name differs from the declared name, built-in names with
\* and without schema, empty type names, a schema text that is not JSON, an
\* entry without is_mutation, a function name that occurs twice, structs that
\* refer to themselves and to each other by name, a struct that refers to a
\* struct no function declares, and custom names for the built-ins String and
\* f64.
GenFunctionEntries ==
    {GenFunctionEntry(JStr("login"), JBool(TRUE),
                      JStr("LoginRequest"), SchemaText(LoginRequestSchema),
                      JStr("AuthResponse"), SchemaText(AuthResponseSchema)),
     GenFunctionEntry(JStr("register"), JBool(TRUE),
                      JStr("Node"), JStr(JsonText(NodeSchemaValue)),
                      JStr("AuthResponse"), SchemaText(AuthResponseSchema)),
     GenFunctionEntry(JStr("whoami"), JBool(FALSE),
                      JNull, JNull,
                      JStr("Session"), SchemaText(AuthResponseSchema)),
     GenFunctionEntry(JStr("ping"), JBool(FALSE),
                      JStr(""), JNull,
                      JStr("String"), JNull),
     GenFunctionEntry(JStr("count"), JBool(FALSE),
                      JStr("i32"), SchemaText(Primitive("i32")),
                      JStr(""), JNull),
     JObj(<<<<"function_name", JStr("health")>>,
            <<"output_schema_json", JStr("not json")>>,
            <<"output_type_name", JStr("Health")>>>>),
     GenFunctionEntry(JStr("login"), JBool(FALSE),
                      JStr("Role"), SchemaText(RoleSchema),
                      JStr("UserId"), SchemaText(Primitive("String"))),
     GenFunctionEntry(JStr("tree"), JBool(FALSE),
                      JStr("A"), SchemaText(ASchema),
                      JStr("B"), SchemaText(BSchema)),
     GenFunctionEntry(JStr("score"), JBool(FALSE),
                      JNull, JNull,
                      JStr("Score"), SchemaText(Primitive("f64"))),
     GenFunctionEntry(JStr("branch"), JBool(FALSE),
                      JStr("A"), SchemaText(ASchema),
                      JStr("String"), JNull)}

\* derive(Deserialize) of types.rs' FunctionMetadata accepts the entry.
IsFunctionMetadata(func) ==
    /\ IsSome(as_str(Get(func, "function_name")))
    /\ IsSome(as_bool(Get(func, "is_mutation")))
    /\ IsSome(as_bool(Get(func, "is_async")))
    /\ IsSome(as_str(Get(func, "output_type_name")))

Generators == {"codegen_shared", "types", "codegen"}

\* A run starts with the generator, the "functions" and "endpoints_discovery"
\* arrays of the document, and empty collections.  The functions of types.rs
\* take typed FunctionMetadata values and no endpoints.
GenerationInputs ==
    {run \in {[generator |-> g, functions |-> fs, endpoints |-> es,
               pc |-> IF g = "codegen" THEN "parse" ELSE "types",
               i |-> 1, slot |-> "input", stack |-> <<>>,
               types |-> EmptyMap, generated |-> <<>>, parsed |-> <<>>, wrappers |-> <<>>] :
                 g \in Generators,
                 fs \in SeqsUpTo(GenFunctionEntries, MaxGenFunctions),
                 es \in {<<>>, <<EndpointEntry(JStr("/auth/login"), JArr(<<JStr("POST")>>))>>}} :
        run.generator = "types" =>
            /\ run.endpoints = <<>>
            /\ \A k \in 1..Len(run.functions) : IsFunctionMetadata(run.functions[k])}

InitGen ==
    /\ pc = "uninit"
    /\ server_addr = [ip |-> "", port |-> 0]
    /\ functions = EmptyMap
    /\ endpoints_discovery = <<>>
    /\ init_call = [request |-> None, response |-> None, fetched |-> None, returned |-> None,
                    panic |-> None]
    /\ calls = [c \in Callers |-> IdleCall]
    /\ resolver = NoResolverRun
    /\ generation \in GenerationInputs
    /\ codec = NoCodecRun
    /\ registry = NoRegistry

\* The type name and the schema text of function `func` in slot "input" or
\* "output" (its *_type_name and *_schema_json members, when they are strings).
slot_type_name(func, slot) == as_str(Get(func, slot \o "_type_name"))
slot_schema_json(func, slot) == as_str(Get(func, slot \o "_schema_json"))
slot_schema_value(func, slot) ==
    IF IsSome(slot_schema_json(func, slot))
    THEN parse_schema_text(Unwrap(slot_schema_json(func, slot)))
    ELSE None

\* Whether the type loop generates a definition for this slot of `func`.
\* codegen_shared.rs: the function has a string name and output type, the type
\* name is a non-empty string and not yet a key of `types`.
\* types.rs: an input type needs a name and a schema text; an output type a
\* non-empty name; neither may be a key of processed_types.
type_wanted(generator, func, slot, types) ==
    LET name == slot_type_name(func, slot)
    IN  IF generator = "codegen_shared"
        THEN /\ IsSome(as_str(Get(func, "function_name")))
             /\ IsSome(as_str(Get(func, "output_type_name")))
             /\ IsSome(name)
             /\ Len(Unwrap(name)) > 0
             /\ Unwrap(name) \notin DOMAIN types
        ELSE IF slot = "input"
        THEN /\ IsSome(name)
             /\ IsSome(slot_schema_json(func, slot))
             /\ Unwrap(name) \notin DOMAIN types
        ELSE /\ Len(Unwrap(name)) > 0
             /\ Unwrap(name) \notin DOMAIN types

\* The field types the struct generator maps, in order: those of the fields
\* it keeps (codegen_shared.rs), or of the fields before the first one it
\* rejects (types.rs).  Empty when the definition is not generated from a
\* Struct schema.
RECURSIVE fields_before_error(_)
fields_before_error(fields) ==
    IF Len(fields) = 0 THEN <<>>
    ELSE IF IsNone(as_str(Get(fields[1], "field_name"))) \/ ~Has(fields[1], "field_type")
    THEN <<>>
    ELSE <<fields[1]>> \o fields_before_error(Tail(fields))

field_type_nodes(generator, type_name, schema_value) ==
    LET usable(field) == IsSome(as_str(Get(field, "field_name"))) /\ Has(field, "field_type")
        fields == IF IsSome(schema_value)
                  THEN array_under_value(Unwrap(schema_value), "fields") ELSE <<>>
        mapped == IF generator = "codegen_shared" THEN SelectSeq(fields, usable)
                  ELSE fields_before_error(fields)
    IN  IF /\ IsSome(schema_value)
           /\ as_str(Get(Unwrap(schema_value), "kind")) = Some("Struct")
           /\ ~(generator = "codegen_shared" /\ type_name \in BuiltinNames)
        THEN [k \in 1..Len(mapped) |-> Get(mapped[k], "field_type")]
        ELSE <<>>

\* The loop position after this slot: the output slot of the same function,
\* then the input slot of the next one.
next_slot(run) ==
    IF run.slot = "input" THEN [run EXCEPT !.pc = "types", !.slot = "output"]
    ELSE [run EXCEPT !.pc = "types", !.slot = "input", !.i = run.i + 1]

\* One test of the type loop: `for func in functions`, first the input type
\* of the function, then its output type.  A type that is to be generated
\* starts the mapper on the field types of its schema.
gen_consider_type ==
    /\ generation.pc = "types"
    /\ generation.i <= Len(generation.functions)
    /\ \E func \in {generation.functions[generation.i]} :
          \E schema_value \in {slot_schema_value(func, generation.slot)} :
              IF type_wanted(generation.generator, func, generation.slot, generation.types)
              THEN generation' =
                       [generation EXCEPT
                           !.pc = "mapping",
                           !.stack = field_type_nodes(
                                         generation.generator,
                                         Unwrap(slot_type_name(func, generation.slot)),
                                         schema_value)]
              ELSE generation' = next_slot(generation)
    /\ UNCHANGED <<client_vars, resolver, codec, registry>>

\* A type mapper that resolves a reference to a struct by name: it looks the
\* named struct up among the schemas of the document and descends into its
\* field types.
children_following_names(node) ==
    IF /\ as_str(Get(node, "kind")) = Some("Container")
       /\ IsSome(as_str(Get(node, "container_type")))
       /\ Has(node, "inner_type")
    THEN <<Get(node, "inner_type")>>
    ELSE IF as_str(Get(node, "kind")) = Some("Struct")
    THEN LET type_name == Get(Get(node, "value"), "type_name")
             named == {v \in GenSchemaValues :
                          /\ as_str(Get(v, "kind")) = Some("Struct")
                          /\ Get(Get(v, "value"), "type_name") = type_name
                          /\ Len(array_under_value(v, "fields")) > 0}
         IN  IF named = {} THEN <<>>
             ELSE LET fields == array_under_value(CHOOSE v \in named : TRUE, "fields")
                  IN  [k \in 1..Len(fields) |-> Get(fields[k], "field_type")]
    ELSE <<>>

\* The nodes get_rust_type_from_schema / get_field_type_string calls itself
\* on after visiting `node`: the "inner_type" member of a node whose "kind" is
\* "Container" and whose "container_type" is a string, both read from the node
\* itself.  A Struct node yields its "type_name" and is not descended into.
children(node) ==
    IF /\ as_str(Get(node, "kind")) = Some("Container")
       /\ IsSome(as_str(Get(node, "container_type")))
       /\ Has(node, "inner_type")
    THEN <<Get(node, "inner_type")>>
    ELSE <<>>

\* One call of get_rust_type_from_schema / get_field_type_string: the node on
\* top of the stack is visited and the nodes it recurses into are pushed.
gen_visit ==
    /\ generation.pc = "mapping"
    /\ Len(generation.stack) > 0
    /\ generation' = [generation EXCEPT
                         !.stack = children(Head(generation.stack)) \o Tail(generation.stack)]
    /\ UNCHANGED <<client_vars, resolver, codec, registry>>

\* The definition is complete.  codegen_shared.rs inserts it under the type
\* name, also when it is the empty text.  types.rs pushes it and marks the
\* type name processed, unless the generator failed.
gen_finish_type ==
    /\ generation.pc = "mapping"
    /\ Len(generation.stack) = 0
    /\ \E func \in {generation.functions[generation.i]} :
          \E type_name \in {Unwrap(slot_type_name(func, generation.slot))},
             schema_value \in {slot_schema_value(func, generation.slot)} :
              IF generation.generator = "codegen_shared"
              THEN generation' =
                       [next_slot(generation) EXCEPT
                           !.types = Insert(@, type_name,
                                        shared_generate_type_from_schema(type_name, schema_value))]
              ELSE \E generated_type \in
                          {IF IsSome(slot_schema_json(func, generation.slot))
                           THEN types_generate_type_from_schema(type_name, schema_value)
                           ELSE Some(types_generate_basic_type(type_name))} :
                       IF IsSome(generated_type)
                       THEN generation' =
                                [next_slot(generation) EXCEPT
                                    !.types = Insert(@, type_name, TRUE),
                                    !.generated = Append(@, Unwrap(generated_type))]
                       ELSE generation' = next_slot(generation)
    /\ UNCHANGED <<client_vars, resolver, codec, registry>>

\* The definitions of `order`'s keys that are not the empty text.
RECURSIVE definitions_in(_, _)
definitions_in(types, order) ==
    IF Len(order) = 0 THEN <<>>
    ELSE (IF types[order[1]].form = "none" THEN <<>> ELSE <<types[order[1]]>>)
         \o definitions_in(types, Tail(order))

\* The type loop is over.  codegen_shared.rs writes the non-empty definitions
\* in the order `types.values()` yields them; generate_types_from_metadata
\* returns the definitions it pushed.
gen_types_return ==
    /\ generation.pc = "types"
    /\ generation.i > Len(generation.functions)
    /\ IF generation.generator = "codegen_shared"
       THEN \E order \in KeyOrders(generation.types) :
               generation' = [generation EXCEPT
                                 !.pc = "wrappers", !.i = 1,
                                 !.generated = definitions_in(generation.types, order)]
       ELSE generation' = [generation EXCEPT !.pc = "wrappers", !.i = 1]
    /\ UNCHANGED <<client_vars, resolver, codec, registry>>

\* generate_client_code (src/codegen.rs): the entries are read into
\* FunctionMetadata values, without their schema texts, and the endpoints
\* into a map; an entry without a required member fails the run.
gen_parse ==
    /\ generation.pc = "parse"
    /\ LET fs == generation.functions
           es == generation.endpoints
       IN  IF \/ \E k \in 1..Len(fs) :
                    \/ IsNone(as_str(Get(fs[k], "function_name")))
                    \/ IsNone(as_str(Get(fs[k], "output_type_name")))
              \/ \E k \in 1..Len(es) :
                    \/ IsNone(as_str(Get(es[k], "uri")))
                    \/ IsNone(as_array(Get(es[k], "methods")))
           THEN generation' = [generation EXCEPT !.pc = "failed"]
           ELSE generation' =
                    [generation EXCEPT
                        !.pc = "wrappers",
                        !.parsed =
                            [k \in 1..Len(fs) |->
                                [function_name |-> Get(fs[k], "function_name").s,
                                 is_mutation |-> unwrap_or(as_bool(Get(fs[k], "is_mutation")), FALSE),
                                 is_async |-> unwrap_or(as_bool(Get(fs[k], "is_async")), FALSE),
                                 input_type_name |-> as_str(Get(fs[k], "input_type_name")),
                                 output_type_name |-> Get(fs[k], "output_type_name").s,
                                 params |-> <<>>,
                                 input_schema_json |-> None,
                                 output_schema_json |-> None]]]
    /\ UNCHANGED <<client_vars, resolver, codec, registry>>

\* One iteration of the wrapper loop over the functions.
\* codegen_shared.rs: an entry with a string name, a boolean is_mutation and a
\* string output type gets a wrapper, on the resolved endpoint or "/" + name.
\* src/codegen.rs: a function gets a wrapper when an endpoint resolves.
\* types.rs: the signature and body generators applied to the function.
gen_wrapper ==
    /\ generation.pc = "wrappers"
    /\ generation.i <= Len(generation.functions)
    /\ \E func \in {generation.functions[generation.i]},
          endpoint_map \in {build_endpoint_map(generation.endpoints)} :
          LET emitted(wrapper) ==
                  generation' = [generation EXCEPT !.i = @ + 1,
                                                   !.wrappers = Append(@, wrapper)]
              skipped == generation' = [generation EXCEPT !.i = @ + 1]
          IN  CASE generation.generator = "codegen_shared" ->
                     IF /\ IsSome(as_str(Get(func, "function_name")))
                        /\ IsSome(as_bool(Get(func, "is_mutation")))
                        /\ IsSome(as_str(Get(func, "output_type_name")))
                     THEN \E order \in KeyOrders(endpoint_map),
                             func_name \in {Get(func, "function_name").s} :
                             \E found \in {shared_find_endpoint_for_function(
                                               func_name, endpoint_map, order)} :
                                 emitted(generate_typed_function_impl(
                                     func_name,
                                     Get(func, "is_mutation").b,
                                     as_str(Get(func, "input_type_name")),
                                     Get(func, "output_type_name").s,
                                     unwrap_or(found, "/" \o func_name)))
                     ELSE skipped
                [] generation.generator = "codegen" ->
                     \E order \in KeyOrders(endpoint_map),
                        parsed \in {generation.parsed[generation.i]} :
                         \E endpoint \in {codegen_find_endpoint_for_function(
                                              parsed.function_name, endpoint_map, order)} :
                             IF IsSome(endpoint)
                             THEN emitted(generate_function_impl(parsed, Unwrap(endpoint)))
                             ELSE skipped
                [] generation.generator = "types" ->
                     emitted(generate_typed_function(
                         Get(func, "function_name").s,
                         Get(func, "is_mutation").b,
                         as_str(Get(func, "input_type_name")),
                         Get(func, "output_type_name").s))
    /\ UNCHANGED <<client_vars, resolver, codec, registry>>

\* The wrapper loop is over: the generator returns its output.
gen_done ==
    /\ generation.pc = "wrappers"
    /\ generation.i > Len(generation.functions)
    /\ generation' = [generation EXCEPT !.pc = "done"]
    /\ UNCHANGED <<client_vars, resolver, codec, registry>>

NextGen ==
    \/ gen_parse
    \/ gen_consider_type
    \/ gen_visit
    \/ gen_finish_type
    \/ gen_types_return
    \/ gen_wrapper
    \/ gen_done

SpecGen == InitGen /\ [][NextGen]_vars

\* Termination is verified on the documents made of the entries whose
\* schemas have nested field types or refer to a struct by name (login,
\* register, tree), and of the entry whose schema text is not JSON (health).
GenLiveEntries ==
    {func \in GenFunctionEntries :
        as_str(Get(func, "output_type_name")) \in {Some("AuthResponse"), Some("B"), Some("Health")}}

InitGenLive ==
    /\ InitGen
    /\ \A k \in 1..Len(generation.functions) : generation.functions[k] \in GenLiveEntries

\* The generator is a sequential program: it takes its next step.
SpecGenLive == InitGenLive /\ [][NextGen]_vars /\ WF_vars(NextGen)

(***************************************************************************)
(* laz_server: the endpoint-discovery registry, a process-wide             *)
(* OnceLock<Vec<(String, Vec<String>)>> that the tasks of the server call  *)
(* concurrently.                                                           *)
(*   cell           the content of ENDPOINTS_DISCOVERY                     *)
(*   tasks          per task: the call it is in and where it stands        *)
(*   gets           the finished get_endpoints_discovery calls, in the     *)
(*                  order they returned: what each returned, the lists     *)
(*                  earlier calls had returned when it was called, and how *)
(*                  many registrations had finished by then                *)
(*   registrations  the lists of the register calls, in the order their    *)
(*                  set took place                                         *)
(*   started        how many calls have been made                          *)
(***************************************************************************)
MaxRegistryCalls == 3      \* calls made on the registry in one run

RegistryTasks == {"t1", "t2"}

\* What collect_routes hands to register_endpoints_discovery.
RouteLists ==
    {<<<<"/auth/login", <<"POST">>>>>>,
     <<<<"/api/health", <<"GET">>>>, <<"/ping", <<"GET">>>>>>}

IdleTask == [pc |-> "idle", endpoints |-> <<>>, read |-> None, seen |-> {}, finished |-> 0]

\* A cell whose set replaces the value it holds.
set_overwriting(cell, value) == Some(value)

\* OnceLock::set: stores the value when the cell is empty, otherwise leaves
\* the cell as it is (and hands the value back in Err).
OnceLock_set(cell, value) == IF IsNone(cell) THEN Some(value) ELSE cell

\* OnceLock::get: a reference to the value, None while the cell is empty.
OnceLock_get(cell) == cell

InitRegistry ==
    /\ pc = "uninit"
    /\ server_addr = [ip |-> "", port |-> 0]
    /\ functions = EmptyMap
    /\ endpoints_discovery = <<>>
    /\ init_call = [request |-> None, response |-> None, fetched |-> None, returned |-> None,
                    panic |-> None]
    /\ calls = [c \in Callers |-> IdleCall]
    /\ resolver = NoResolverRun
    /\ generation = NoGeneration
    /\ codec = NoCodecRun
    /\ registry = [cell |-> None, tasks |-> [t \in RegistryTasks |-> IdleTask],
                   gets |-> <<>>, registrations |-> <<>>, started |-> 0]

\* A task calls register_endpoints_discovery(endpoints).
register_call(t, endpoints) ==
    /\ registry.tasks[t].pc = "idle"
    /\ registry.started < MaxRegistryCalls
    /\ registry' = [registry EXCEPT !.tasks[t] = [IdleTask EXCEPT !.pc = "registering",
                                                                 !.endpoints = endpoints],
                                    !.started = @ + 1]
    /\ UNCHANGED <<client_vars, resolver, generation, codec>>

\* `let _ = ENDPOINTS_DISCOVERY.set(endpoints);` and the return.
register_set(t) ==
    /\ registry.tasks[t].pc = "registering"
    /\ registry' = [registry EXCEPT
          !.cell = OnceLock_set(@, registry.tasks[t].endpoints),
          !.registrations = Append(@, registry.tasks[t].endpoints),
          !.tasks[t] = IdleTask]
    /\ UNCHANGED <<client_vars, resolver, generation, codec>>

\* A task calls get_endpoints_discovery().
get_call(t) ==
    /\ registry.tasks[t].pc = "idle"
    /\ registry.started < MaxRegistryCalls
    /\ registry' = [registry EXCEPT
          !.tasks[t] = [IdleTask EXCEPT
              !.pc = "getting",
              !.seen = {registry.gets[k].result : k \in 1..Len(registry.gets)} \ {None},
              !.finished = Len(registry.registrations)],
          !.started = @ + 1]
    /\ UNCHANGED <<client_vars, resolver, generation, codec>>

\* ENDPOINTS_DISCOVERY.get()
get_read(t) ==
    /\ registry.tasks[t].pc = "getting"
    /\ registry' = [registry EXCEPT !.tasks[t].pc = "read",
                                    !.tasks[t].read = Some(OnceLock_get(registry.cell))]
    /\ UNCHANGED <<client_vars, resolver, generation, codec>>

\* get_endpoints_discovery returns what it read.
get_return(t) ==
    /\ registry.tasks[t].pc = "read"
    /\ registry' = [registry EXCEPT
          !.gets = Append(@, [result |-> Unwrap(registry.tasks[t].read),
                              seen |-> registry.tasks[t].seen,
                              finished |-> registry.tasks[t].finished]),
          !.tasks[t] = IdleTask]
    /\ UNCHANGED <<client_vars, resolver, generation, codec>>

NextRegistry ==
    \/ \E t \in RegistryTasks, endpoints \in RouteLists : register_call(t, endpoints)
    \/ \E t \in RegistryTasks : register_set(t)
    \/ \E t \in RegistryTasks : get_call(t)
    \/ \E t \in RegistryTasks : get_read(t)
    \/ \E t \in RegistryTasks : get_return(t)

SpecRegistry == InitRegistry /\ [][NextRegistry]_vars

(***************************************************************************)
(* Properties                                                              *)
(***************************************************************************)
InitReturned == pc # "uninit"

FetchFailed ==
    /\ pc = "ready"
    /\ IsSome(init_call.fetched)
    /\ ~Unwrap(init_call.fetched).ok

\* C1: once init has been called, it has returned Ok(client), whatever the
\* metadata fetch did: a transport error, a non-2xx status, a body that is
\* not a metadata document, an entry without a required field, or success.
C1_InitAlwaysReturnsOk ==
    InitReturned => /\ IsSome(init_call.returned)
                    /\ Unwrap(init_call.returned).ok

\* C2: when fetch_metadata failed, the client init returned has an empty
\* function map and an empty endpoint list.
C2_FailedFetchLeavesEmptyMetadata ==
    FetchFailed => /\ DOMAIN functions = {}
                   /\ Len(endpoints_discovery) = 0

\* C3: once init has returned a client, no step (a call, its response, an
\* accessor) changes the function map, the endpoint list or the server address.
C3_SnapshotWrittenOnce ==
    [][pc = "ready" => snapshot' = snapshot]_vars

\* A loaded client on which a call_function went to the server and failed
\* there, after an accessor-visible snapshot was built.
C3_Witness ==
    /\ pc = "ready"
    /\ DOMAIN functions # {}
    /\ Len(endpoints_discovery) > 0
    /\ \E c \in Callers :
          /\ calls[c].pc = "returned"
          /\ calls[c].op = "call_function"
          /\ Len(calls[c].requests) = 1
          /\ ~Unwrap(calls[c].result).ok

\* C4: a call_function invocation has sent a request only if its name is a
\* key of the function map and the resolver yields an endpoint for it; for an
\* absent name it returned FunctionNotFound(name), for a present name without
\* endpoint FunctionNotFound with the "No endpoint found for function" detail,
\* and in both cases it sent nothing.
C4_CallFunctionGuards ==
    \A c \in Callers :
        calls[c].op = "call_function" =>
            LET name == calls[c].function_name
                known == name \in DOMAIN functions
                resolved == \E i \in 1..Len(endpoints_discovery) :
                               \/ Contains(endpoints_discovery[i].uri, name)
                               \/ Contains(endpoints_discovery[i].uri, kebab(name))
                               \/ Contains(endpoints_discovery[i].uri, ToLowercase(name))
            IN  /\ Len(calls[c].requests) > 0 => known /\ resolved
                /\ ~known =>
                      /\ calls[c].pc = "returned"
                      /\ Len(calls[c].requests) = 0
                      /\ calls[c].result = Some(Err(FunctionNotFound(name)))
                /\ known /\ ~resolved =>
                      /\ calls[c].pc = "returned"
                      /\ Len(calls[c].requests) = 0
                      /\ ~Unwrap(calls[c].result).ok
                      /\ Unwrap(Unwrap(calls[c].result).err).kind = "FunctionNotFound"
                      /\ Contains(Unwrap(Unwrap(calls[c].result).err).msg,
                                  "No endpoint found for function")

\* call_function on a known function for which no endpoint resolves.
C4_Witness ==
    \E c \in Callers :
        /\ calls[c].op = "call_function"
        /\ calls[c].function_name = "reg_user"
        /\ "reg_user" \in DOMAIN functions
        /\ calls[c].pc = "returned"
        /\ Len(calls[c].requests) = 0
        /\ Unwrap(Unwrap(calls[c].result).err).msg = "No endpoint found for function: reg_user"

\* The uris of the resolver run's input, in list order.
InputUris == [i \in 1..Len(resolver.endpoints) |-> Get(resolver.endpoints[i], "uri").s]

SubstringMatch(uri, name) ==
    \/ Contains(uri, name)
    \/ Contains(uri, Replace(name, "_", "-"))
    \/ Contains(uri, ToLowercase(name))

\* C5: when some uri of the list contains the function name, its kebab form
\* or its lower-cased form, the runtime resolver returns the first such uri in
\* list order.
C5_FirstSubstringMatch ==
    IsSome(resolver.runtime.last) =>
        \A i \in 1..Len(InputUris) :
            (/\ SubstringMatch(InputUris[i], resolver.function_name)
             /\ \A j \in 1..(i - 1) : ~SubstringMatch(InputUris[j], resolver.function_name))
            => Unwrap(resolver.runtime.last) = Some(InputUris[i])

\* Two different uris of the list match, the first of them only through the
\* lower-cased name, and the first was returned.
C5_Witness ==
    /\ IsSome(resolver.runtime.last)
    /\ resolver.function_name = "Ping"
    /\ InputUris = <<"/ping", "/api/Ping">>
    /\ Unwrap(resolver.runtime.last) = Some("/ping")

\* C6: two resolutions with the same function name and the same endpoint list
\* return the same result, for the runtime resolver and for both
\* generation-time resolvers.
C6_ResolutionIsDeterministic ==
    \A runs \in {resolver.runtime, resolver.shared, resolver.codegen} :
        IsSome(runs.first) /\ IsSome(runs.last) => runs.first = runs.last

\* The invocations that went through call_endpoint directly.
DirectCalls == {c \in Callers : calls[c].op = "call_endpoint"}

\* C7: call_endpoint(path, true, params) sends exactly one request, a POST
\* without query parameters whose JSON body is params when params is Some and
\* which has no body when params is None.
C7_MutationIsPost ==
    \A c \in DirectCalls :
        calls[c].is_mutation =>
            /\ Len(calls[c].requests) = 1
            /\ calls[c].requests[1].method = "POST"
            /\ calls[c].requests[1].query = <<>>
            /\ calls[c].requests[1].body = calls[c].params

\* A mutation whose params are a JSON string went out as a POST with that body,
\* and the server answered.
C7_Witness ==
    \E c \in DirectCalls :
        /\ calls[c].is_mutation
        /\ calls[c].pc = "returned"
        /\ calls[c].params = Some(JStr("x"))
        /\ calls[c].requests[1].method = "POST"
        /\ calls[c].requests[1].body = Some(JStr("x"))

\* The text a query parameter is to carry for a JSON value: the string itself,
\* the decimal or boolean text, and the JSON text of null, arrays and objects.
QueryText(v) ==
    CASE v.t = "str"  -> v.s
      [] v.t = "num"  -> Decimal(v.n)
      [] v.t = "bool" -> (IF v.b THEN "true" ELSE "false")
      [] v.t = "null" -> "null"
      [] v.t = "arr"  -> "[" \o JoinValues(v.a) \o "]"
      [] v.t = "obj"  -> "{" \o JoinMembers(v.o) \o "}"

\* C8: call_endpoint(path, false, params) sends exactly one request, a GET
\* without body; for an object params it carries one query parameter per
\* top-level member, valued as QueryText says; for None, a non-object or an
\* empty object it carries no query parameter.
C8_ReadIsGetWithQuery ==
    \A c \in DirectCalls :
        ~calls[c].is_mutation =>
            LET request == calls[c].requests[1]
                params == calls[c].params
            IN  /\ Len(calls[c].requests) = 1
                /\ request.method = "GET"
                /\ request.body = None
                /\ IF IsSome(params) /\ Unwrap(params).t = "obj"
                   THEN /\ Len(request.query) = Len(Unwrap(params).o)
                        /\ \A i \in 1..Len(request.query) :
                              /\ request.query[i][1] = Unwrap(params).o[i][1]
                              /\ request.query[i][2] = QueryText(Unwrap(params).o[i][2])
                   ELSE request.query = <<>>

\* A read whose params hold null, an array and a nested object went out with
\* their JSON texts as query values.
C8_Witness ==
    \E c \in DirectCalls :
        /\ ~calls[c].is_mutation
        /\ calls[c].requests[1].method = "GET"
        /\ calls[c].requests[1].query =
              <<<<"d", "null">>, <<"e", "[1,\"s\"]">>, <<"f", "{\"g\":false}">>>>

\* The invocations whose request was answered with a non-2xx status.
FailedOnServer ==
    {c \in Callers : /\ IsSome(calls[c].response)
                     /\ Unwrap(calls[c].response).sent
                     /\ ~(Unwrap(calls[c].response).status \in 200..299)}

\* C9: an invocation answered with a non-2xx status returned ServerError, with
\* a message that contains the status code and the body text (when the body
\* could not be read there is no body text, and the message says "Unknown
\* error"); it did not return Ok.
C9_Non2xxIsServerError ==
    \A c \in FailedOnServer :
        LET response == Unwrap(calls[c].response)
            result == Unwrap(calls[c].result)
        IN  /\ ~result.ok
            /\ Unwrap(result.err).kind = "ServerError"
            /\ Contains(Unwrap(result.err).msg, Decimal(response.status))
            /\ IsSome(response.text) => Contains(Unwrap(result.err).msg, Unwrap(response.text))
            /\ IsNone(response.text) => Contains(Unwrap(result.err).msg, "Unknown error")

\* The call of the spec's example: HTTP 404 with body "not found".
C9_Witness ==
    \E c \in FailedOnServer :
        /\ Unwrap(calls[c].response).status = 404
        /\ Unwrap(calls[c].response).text = Some("not found")
        /\ Unwrap(Unwrap(calls[c].result).err).msg =
              "Endpoint /health failed with status 404 Not Found: not found"

\* The invocations whose request was answered with a 2xx status and a body
\* that could be read.
AnsweredOk ==
    {c \in Callers : /\ IsSome(calls[c].response)
                     /\ Unwrap(calls[c].response).sent
                     /\ Unwrap(calls[c].response).status \in 200..299
                     /\ IsSome(Unwrap(calls[c].response).text)}

\* C10: on a 2xx response, a body that is the JSON text of a value is returned
\* as that value, and a body that is not JSON makes the call fail with
\* JsonError.
C10_DecodeFailureIsJsonError ==
    \A c \in AnsweredOk :
        LET text == Unwrap(Unwrap(calls[c].response).text)
            result == Unwrap(calls[c].result)
        IN  IF \E v \in ResponseValues : JsonText(v) = text
            THEN result.ok /\ JsonText(Unwrap(result.value)) = text
            ELSE ~result.ok /\ Unwrap(result.err).kind = "JsonError"

\* The invocations that call the server: call_endpoint, and call_function
\* reached directly or through call_with_input.
CallOps == {"call_endpoint", "call_function", "call_with_input"}

\* C11: a call_endpoint invocation has sent exactly one request, a
\* call_function invocation at most one; an invocation that has returned holds
\* exactly one of a decoded value and an error; and the step that ends an
\* invocation in flight, whatever the response was (transport error, non-2xx,
\* undecodable body, success), returns to the caller without sending again.
C11_NoRetry ==
    /\ [](\A c \in Callers :
            calls[c].op \in CallOps =>
              /\ calls[c].op = "call_endpoint" => Len(calls[c].requests) = 1
              /\ Len(calls[c].requests) <= 1
              /\ calls[c].pc = "awaiting" => IsNone(calls[c].result)
              /\ calls[c].pc = "returned" =>
                    /\ IsSome(calls[c].result)
                    /\ IsSome(Unwrap(calls[c].result).value) # IsSome(Unwrap(calls[c].result).err)
                    /\ Unwrap(calls[c].result).ok = IsSome(Unwrap(calls[c].result).value))
    /\ [][\A c \in Callers :
            calls[c].pc = "awaiting" /\ calls'[c] # calls[c] =>
              /\ calls'[c].pc = "returned"
              /\ calls'[c].requests = calls[c].requests]_vars

\* A call_endpoint whose one request was answered 200 with a body that is not
\* JSON has returned an error.
C11_Witness ==
    \E c \in Callers :
        /\ calls[c].op = "call_endpoint"
        /\ calls[c].pc = "returned"
        /\ Len(calls[c].requests) = 1
        /\ calls[c].response = Some([sent |-> TRUE, status |-> 200, text |-> Some("not json")])
        /\ IsSome(Unwrap(calls[c].result).err)

\* What an invocation sends and returns, computed from its own arguments, the
\* snapshot and the response to its own request.
OwnRequests(call) ==
    IF call.op = "call_endpoint"
    THEN <<build_request(server_addr, call.endpoint, call.is_mutation, call.params)>>
    ELSE IF /\ call.function_name \in DOMAIN functions
            /\ IsSome(find_endpoint_for_function(endpoints_discovery, call.function_name))
         THEN <<build_request(server_addr,
                              Unwrap(find_endpoint_for_function(endpoints_discovery,
                                                                call.function_name)),
                              functions[call.function_name].is_mutation, call.params)>>
         ELSE <<>>

\* A response from which a value can be decoded.
Decodable(response) ==
    /\ response.sent
    /\ response.status \in 200..299
    /\ IsSome(response.text)
    /\ IsSome(parse_json(Unwrap(response.text)))

\* The record of caller c differs after the step: another invocation, or the
\* same invocation further on.
RecordChanged(c) ==
    \/ calls'[c].op # calls[c].op
    \/ calls'[c].pc # calls[c].pc
    \/ calls'[c].function_name # calls[c].function_name
    \/ calls'[c].endpoint # calls[c].endpoint
    \/ calls'[c].is_mutation # calls[c].is_mutation
    \/ calls'[c].params # calls[c].params
    \/ calls'[c].requests # calls[c].requests
    \/ calls'[c].response # calls[c].response
    \/ calls'[c].result # calls[c].result

\* C12: whatever the interleaving, the request of an invocation is the one its
\* own arguments and the snapshot determine, its result is the one the response
\* to its own request determines, and a step of one invocation leaves the
\* record of every other invocation as it was.
C12_InvocationsDoNotInteract ==
    /\ [](\A c \in Callers :
            calls[c].op \in {"call_endpoint", "call_function"} =>
              /\ calls[c].requests = OwnRequests(calls[c])
              /\ calls[c].pc = "returned" /\ Len(calls[c].requests) = 1 =>
                    LET result == Unwrap(calls[c].result)
                        response == Unwrap(calls[c].response)
                    IN  /\ result.ok = Decodable(response)
                        /\ result.ok => JsonText(Unwrap(result.value)) = Unwrap(response.text)
                        /\ ~result.ok /\ response.sent /\ IsSome(response.text)
                           /\ response.status \notin 200..299 =>
                              Contains(Unwrap(result.err).msg, Unwrap(response.text)))
    /\ [][\A c, d \in Callers :
            c # d /\ RecordChanged(c) => calls'[d] = calls[d]]_vars

\* Two invocations in flight at once: a call_function with params and a
\* call_endpoint without, each with its own request.
C12_Witness ==
    /\ calls["c1"].pc = "awaiting"
    /\ calls["c2"].pc = "awaiting"
    /\ calls["c1"].op = "call_function"
    /\ calls["c1"].params # None
    /\ calls["c2"].op = "call_endpoint"
    /\ calls["c2"].params = None
    /\ calls["c1"].requests # calls["c2"].requests

\* C13: the request of a call goes to "http://{ip}:{port}" + "/api" + path for
\* the address the client was initialised with and the path the call uses,
\* and the metadata request of init went to "http://{ip}:{port}/_laz/metadata".
C13_RequestUrls ==
    pc = "ready" =>
        LET root == "http://" \o server_addr.ip \o ":" \o Decimal(server_addr.port)
        IN  /\ Unwrap(init_call.request).url = root \o "/_laz/metadata"
            /\ \A c \in Callers :
                  \A i \in 1..Len(calls[c].requests) :
                      calls[c].requests[i].url = root \o "/api" \o calls[c].endpoint

\* A call_endpoint on a path that already starts with /api, on the second
\* server address.
C13_Witness ==
    /\ pc = "ready"
    /\ Unwrap(init_call.request).url = "http://127.0.0.1:8080/_laz/metadata"
    /\ \E c \in Callers :
          /\ calls[c].op = "call_endpoint"
          /\ calls[c].requests[1].url = "http://127.0.0.1:8080/api/api/login"

\* C19: a TypeSchema value that was serialized to the tagged wire format and
\* deserialized back was read without error and equals the value that was
\* serialized.
C19_SchemaRoundTrip ==
    codec.pc = "decoded" =>
        /\ IsSome(Unwrap(codec.decoded))
        /\ Unwrap(Unwrap(codec.decoded)) = codec.schema

\* An enum with a variant without payload and a variant whose payload is an
\* optional integer made the round trip through nested {"kind", "value"}
\* objects, the absent payload as null.
C19_Witness ==
    /\ codec.pc = "decoded"
    /\ codec.schema = Enum("Role", <<VariantSchema("Admin", None),
                                     VariantSchema("Member",
                                         Some(Container("Option", Primitive("i32"))))>>)
    /\ LET variants == Get(Get(Unwrap(codec.wire), "value"), "variants").a
       IN  /\ Get(variants[1], "inner_schema") = JNull
           /\ Get(variants[2], "inner_schema") =
                 JObj(<<<<"kind", JStr("Container")>>,
                        <<"value", JObj(<<<<"container_type", JStr("Option")>>,
                                          <<"inner_type",
                                            JObj(<<<<"kind", JStr("Primitive")>>,
                                                   <<"value", JStr("i32")>>>>)>>>>)>>>>)
    /\ codec.decoded = Some(Some(codec.schema))

\* The generators that have a type mapper: the build generator
\* (codegen_shared.rs) and the functions of types.rs.
TypedGenerators == {"codegen_shared", "types"}

\* The type definitions the run has put out, and how many of them define `name`.
DefinitionCount(name) ==
    Cardinality({k \in 1..Len(generation.generated) : generation.generated[k].name = name})

\* The non-empty type names the functions of the document declare.
ReferencedTypeNames ==
    UNION {{Unwrap(slot_type_name(generation.functions[k], slot)) :
               slot \in {s \in {"input", "output"} :
                            IsSome(slot_type_name(generation.functions[k], s))}} :
           k \in 1..Len(generation.functions)}
    \ {""}

\* C14: in the output of a generation run every type name the functions
\* declare, the built-in names apart, is defined exactly once, and no name has
\* two definitions, whatever type_name the schemas carry.
C14_EachTypeDefinedOnce ==
    generation.pc = "done" /\ generation.generator \in TypedGenerators =>
        /\ \A name \in ReferencedTypeNames \ BuiltinNames : DefinitionCount(name) = 1
        /\ \A k \in 1..Len(generation.generated) :
              DefinitionCount(generation.generated[k].name) = 1

\* C15: no definition the type mapper puts out is named String, i32, i64,
\* bool, f32 or f64.
C15_BuiltinsNeverDefined ==
    generation.generator \in TypedGenerators =>
        \A k \in 1..Len(generation.generated) :
            generation.generated[k].name \notin BuiltinNames

\* The member type the schema model's value stands for: the list idiom for a
\* Vec container, the optional idiom for an Option container, applied to the
\* idiom of the inner type.
RECURSIVE IdiomOf(_)
IdiomOf(schema) ==
    CASE schema.kind = "Container" /\ schema.container_type = "Vec" ->
             "Vec<" \o IdiomOf(schema.inner_type) \o ">"
      [] schema.kind = "Container" /\ schema.container_type = "Option" ->
             "Option<" \o IdiomOf(schema.inner_type) \o ">"
      [] schema.kind = "Primitive" /\ schema.name \in BuiltinNames -> schema.name
      [] schema.kind = "Struct" -> schema.type_name
      [] OTHER -> "serde_json::Value"

\* The struct schemas the server publishes in the wire format.
PublishedStructs == {LoginRequestSchema, AuthResponseSchema, ASchema, BSchema}

\* C16: in the definition generated for a published struct, the member of a
\* field whose schema is a Vec or Option container has the list or optional
\* idiom of the mapped inner type (inside Option<..> when the field is
\* optional), not the untyped JSON placeholder.
C16_ContainerFieldsAreTyped ==
    generation.generator \in TypedGenerators =>
        \A k \in 1..Len(generation.generated) :
            \A schema \in PublishedStructs :
                LET definition == generation.generated[k]
                IN  /\ definition.form = "struct"
                    /\ definition.name = schema.type_name
                    /\ Len(definition.members) = Len(schema.fields)
                    => \A f \in 1..Len(schema.fields) :
                          schema.fields[f].field_type.kind = "Container" =>
                              definition.members[f].type =
                                  IF schema.fields[f].optional
                                  THEN "Option<" \o IdiomOf(schema.fields[f].field_type) \o ">"
                                  ELSE IdiomOf(schema.fields[f].field_type)

\* How many wrappers of the run's output are named `name`.
WrapperCount(name) ==
    Cardinality({k \in 1..Len(generation.wrappers) : generation.wrappers[k].name = name})

\* C17: the output of a generator has exactly one wrapper for every function
\* the runtime client accepts into its function map from the same document,
\* and none for anything else.
C17_OneWrapperPerFunction ==
    generation.pc = "done" =>
        LET accepted == DOMAIN store_functions(generation.functions, EmptyMap).functions
        IN  /\ \A name \in accepted : WrapperCount(name) = 1
            /\ \A k \in 1..Len(generation.wrappers) : generation.wrappers[k].name \in accepted

\* The wrapper the signature rule asks for, for a function entry: a parameter
\* of the input type exactly when the input type name is a non-empty string,
\* the output type or () as result, and Some(params) passed exactly when there
\* is a parameter.
HasTheStatedSignature(wrapper, func) ==
    LET input == as_str(Get(func, "input_type_name"))
        output == unwrap_or(as_str(Get(func, "output_type_name")), "")
        with_param == IsSome(input) /\ Unwrap(input) # ""
    IN  /\ wrapper.name = unwrap_or(as_str(Get(func, "function_name")), "")
        /\ wrapper.param = (IF with_param THEN input ELSE None)
        /\ wrapper.result = (IF output = "" THEN "()" ELSE output)
        /\ wrapper.payload = (IF with_param THEN "Some" ELSE "None")

\* C18: every wrapper of a typed generator has the stated signature for a
\* function of the document that it is named after.
C18_WrapperSignature ==
    generation.generator \in TypedGenerators =>
        \A k \in 1..Len(generation.wrappers) :
            \E j \in 1..Len(generation.functions) :
                HasTheStatedSignature(generation.wrappers[k], generation.functions[j])

\* C20: every generator run comes to an end, with its output or with an
\* error, whatever the document: also when a struct of the document refers to
\* itself, or two structs refer to each other, by name.
C20_GenerationTerminates ==
    <>(generation.pc \in {"done", "failed"})

\* The build generator has finished on a document with a struct that refers
\* to itself and two structs that refer to each other: the references are
\* member types by name.
C20_Witness ==
    /\ generation.pc = "done"
    /\ generation.generator = "codegen_shared"
    /\ \E a, b, n \in 1..Len(generation.generated) :
          /\ generation.generated[a] = StructDefinition("A", <<[name |-> "b", type |-> "B"]>>)
          /\ generation.generated[b] = StructDefinition("B", <<[name |-> "a", type |-> "A"]>>)
          /\ generation.generated[n] =
                StructDefinition("Node", <<[name |-> "parent", type |-> "serde_json::Value"],
                                            [name |-> "next", type |-> "Option<Node>"]>>)

\* The candidate paths of a function name, in the order they are tried.
CandidatePaths(name) ==
    <<"/api/" \o Replace(name, "_", "-"),
      "/api/auth/" \o Replace(name, "_", "-"),
      "/auth/" \o Replace(name, "_", "-")>>

\* The first candidate path that equals some uri of the list, if any.
FirstCandidateAmong(name, uris) ==
    LET equal == {k \in 1..3 : \E i \in 1..Len(uris) : uris[i] = CandidatePaths(name)[k]}
    IN  IF equal = {} THEN None
        ELSE Some(CandidatePaths(name)[CHOOSE k \in equal : \A m \in equal : k <= m])

\* C21: when no uri of the list passes a substring test, the runtime resolver
\* returns the first of the candidate paths /api/{kebab}, /api/auth/{kebab},
\* /auth/{kebab} that equals some uri, and no match when none does.
C21_CandidatePaths ==
    /\ IsSome(resolver.runtime.last)
    /\ \A i \in 1..Len(InputUris) : ~SubstringMatch(InputUris[i], resolver.function_name)
    => Unwrap(resolver.runtime.last) = FirstCandidateAmong(resolver.function_name, InputUris)

\* The resolver ran on a list of two uris, neither of which passes a substring
\* test for "register_user", and returned no match.
C21_Witness ==
    /\ IsSome(resolver.runtime.last)
    /\ resolver.function_name = "register_user"
    /\ InputUris = <<"/api/health", "/api/auth/login">>
    /\ Unwrap(resolver.runtime.last) = None


\* The invocations of call_function that reached call_endpoint.
ForwardedCalls ==
    {c \in Callers : calls[c].op = "call_function" /\ Len(calls[c].requests) > 0}

\* The first discovered uri that contains the name, its kebab form or its
\* lowercase form.
FirstMatchingUri(name) ==
    LET matching == {i \in 1..Len(endpoints_discovery) :
                        \/ Contains(endpoints_discovery[i].uri, name)
                        \/ Contains(endpoints_discovery[i].uri, kebab(name))
                        \/ Contains(endpoints_discovery[i].uri, ToLowercase(name))}
    IN  endpoints_discovery[CHOOSE i \in matching : \A j \in matching : i <= j].uri

\* C22: call_function on a known function f whose endpoint resolves to e sends
\* exactly the one request of call_endpoint(e, f.is_mutation, params): to e
\* under the base url, a POST whose body is params when the stored is_mutation
\* is true, a GET whose query is taken from params otherwise, whatever methods
\* the discovery entry of e lists.
C22_CallFunctionForwards ==
    \A c \in ForwardedCalls :
        LET name == calls[c].function_name
            request == calls[c].requests[1]
            params == calls[c].params
        IN  /\ Len(calls[c].requests) = 1
            /\ request.url = "http://" \o server_addr.ip \o ":" \o Decimal(server_addr.port)
                                \o "/api" \o FirstMatchingUri(name)
            /\ request.method = (IF functions[name].is_mutation THEN "POST" ELSE "GET")
            /\ functions[name].is_mutation =>
                  /\ request.query = <<>>
                  /\ request.body = params
            /\ ~functions[name].is_mutation =>
                  /\ request.body = None
                  /\ IF IsSome(params) /\ Unwrap(params).t = "obj"
                     THEN /\ Len(request.query) = Len(Unwrap(params).o)
                          /\ \A i \in 1..Len(request.query) :
                                /\ request.query[i][1] = Unwrap(params).o[i][1]
                                /\ request.query[i][2] = QueryText(Unwrap(params).o[i][2])
                     ELSE request.query = <<>>

\* call_function("login") with login stored as a mutation went out as a POST
\* to an endpoint whose discovery entry lists GET only.
C22_Witness ==
    \E c \in ForwardedCalls :
        /\ calls[c].function_name = "login"
        /\ functions["login"].is_mutation
        /\ calls[c].requests[1].method = "POST"
        /\ calls[c].requests[1].body = calls[c].params
        /\ IsSome(calls[c].params)
        /\ \E i \in 1..Len(endpoints_discovery) :
              /\ endpoints_discovery[i].uri = "/auth/login"
              /\ endpoints_discovery[i].methods = <<"GET">>


\* How many times `part` occurs in `text`.
Occurrences(text, part) ==
    Cardinality({i \in 1..(Len(text) - Len(part) + 1) :
                    SubSeq(text, i, i + Len(part) - 1) = part})

\* C23: the url of every request made through call_function contains the
\* fixed prefix "/api" exactly once, also when the discovered uri the call
\* resolved to begins with /api itself.
C23_PrefixOnce ==
    \A c \in ForwardedCalls :
        Occurrences(calls[c].requests[1].url, "/api") = 1


\* fetch_metadata returned Ok(()) on the document the server answered with.
FetchSucceeded ==
    /\ pc = "ready"
    /\ IsSome(init_call.response)
    /\ IsSome(init_call.fetched)
    /\ Unwrap(init_call.fetched).ok

\* The document of the answer, its two arrays and its two counters.
FetchedDocument == Unwrap(Unwrap(Unwrap(init_call.response).text).json)
DocumentFunctions == Get(FetchedDocument, "functions").a
DocumentEndpoints == Get(FetchedDocument, "endpoints_discovery").a

\* The position of the last entry of the functions array that carries `name`.
LastEntryNamed(name) ==
    CHOOSE i \in 1..Len(DocumentFunctions) :
        /\ Get(DocumentFunctions[i], "function_name") = JStr(name)
        /\ \A j \in (i + 1)..Len(DocumentFunctions) :
              Get(DocumentFunctions[j], "function_name") # JStr(name)

Declarations ==
    {d \in (1..Len(generation.functions)) \X {"input", "output"} :
        /\ IsSome(slot_type_name(generation.functions[d[1]], d[2]))
        /\ Unwrap(slot_type_name(generation.functions[d[1]], d[2])) # ""}

DeclaredName(d) == Unwrap(slot_type_name(generation.functions[d[1]], d[2]))
DeclaredSchema(d) == slot_schema_value(generation.functions[d[1]], d[2])

\* The declarations whose name the document declares with one schema only.
UnambiguousDeclarations ==
    {d \in Declarations :
        \A e \in Declarations : DeclaredName(e) = DeclaredName(d)
                                   => DeclaredSchema(e) = DeclaredSchema(d)}

\* C25: when a run of a type mapper is done, a type name N declared with the
\* schema Primitive(P), P a built-in other than N, is defined as a newtype
\* named N that wraps P.
C25_RenamedPrimitiveWrapsBuiltin ==
    generation.pc = "done" /\ generation.generator \in TypedGenerators =>
        \A d \in UnambiguousDeclarations :
            LET schema == DeclaredSchema(d)
                N == DeclaredName(d)
            IN  /\ IsSome(schema)
                /\ Get(Unwrap(schema), "kind") = JStr("Primitive")
                /\ Get(Unwrap(schema), "value").t = "str"
                /\ Get(Unwrap(schema), "value").s \in BuiltinNames \ {N}
                /\ N \notin BuiltinNames
                => \E k \in 1..Len(generation.generated) :
                      generation.generated[k] =
                          NewtypeDefinition(N, Get(Unwrap(schema), "value").s)


\* A parsed Enum schema one of whose variants carries an inner schema.
HasDataVariant(schema_value) ==
    LET variants == array_under_value(schema_value, "variants")
    IN  \E i \in 1..Len(variants) :
            Has(variants[i], "inner_schema") /\ Get(variants[i], "inner_schema").t # "null"

\* C26: when a run of a type mapper is done, a declared type name that is not
\* a built-in has an enumeration of bare tags as its definition only if its
\* schema is an Enum all of whose variants are zero-field; when its schema is
\* missing or unparsable, is neither Struct, Primitive nor Enum, or is an Enum
\* with a variant that carries an inner schema, its definition is the newtype
\* around the untyped JSON value.
C26_OnlyPlainEnumsAreEnums ==
    generation.pc = "done" /\ generation.generator \in TypedGenerators =>
        \A d \in UnambiguousDeclarations :
            LET schema == DeclaredSchema(d)
                N == DeclaredName(d)
                kind == IF IsSome(schema) THEN as_str(Get(Unwrap(schema), "kind")) ELSE None
            IN  N \notin BuiltinNames =>
                  /\ \A k \in 1..Len(generation.generated) :
                        generation.generated[k].name = N /\ generation.generated[k].form = "enum"
                        => kind = Some("Enum") /\ ~HasDataVariant(Unwrap(schema))
                  /\ \/ IsNone(schema)
                     \/ kind \notin {Some("Struct"), Some("Primitive"), Some("Enum")}
                     \/ kind = Some("Enum") /\ HasDataVariant(Unwrap(schema))
                     => \E k \in 1..Len(generation.generated) :
                           generation.generated[k] = NewtypeDefinition(N, "serde_json::Value")


\* The uris of the endpoints_discovery array the generator was given.
GenerationUris ==
    {Get(generation.endpoints[i], "uri").s : i \in 1..Len(generation.endpoints)}

\* C27: in the output of the build generator, the stub of a function for
\* which no listed uri contains the name or its kebab form, and no listed uri
\* equals /api/, /api/auth/ or /auth/ followed by the kebab form, calls the
\* path "/" + functionName.
C27_UnresolvedStubCallsOwnName ==
    generation.generator = "codegen_shared" =>
        \A k \in 1..Len(generation.wrappers) :
            LET name == generation.wrappers[k].name
            IN  /\ \A uri \in GenerationUris :
                      ~Contains(uri, name) /\ ~Contains(uri, kebab(name))
                /\ GenerationUris \cap {"/api/" \o kebab(name), "/api/auth/" \o kebab(name),
                                        "/auth/" \o kebab(name)} = {}
                => generation.wrappers[k].endpoint = "/" \o name


\* C28: whenever the runtime resolver returned a uri for a function name and
\* an endpoint list, every resolution of a generation-time resolver on the
\* same name and list returned that uri.
C28_ResolversAgree ==
    /\ IsSome(resolver.runtime.last)
    /\ IsSome(Unwrap(resolver.runtime.last))
    => \A runs \in {resolver.shared, resolver.codegen} :
          /\ IsSome(runs.first) => Unwrap(runs.first) = Unwrap(resolver.runtime.last)
          /\ IsSome(runs.last) => Unwrap(runs.last) = Unwrap(resolver.runtime.last)


\* The type a member type text names once its Option<..> and Vec<..> idioms
\* are taken off.
RECURSIVE NamedType(_)
NamedType(type) ==
    IF Len(type) > 8 /\ SubSeq(type, 1, 7) = "Option<" /\ SubSeq(type, Len(type), Len(type)) = ">"
    THEN NamedType(SubSeq(type, 8, Len(type) - 1))
    ELSE IF Len(type) > 5 /\ SubSeq(type, 1, 4) = "Vec<" /\ SubSeq(type, Len(type), Len(type)) = ">"
    THEN NamedType(SubSeq(type, 5, Len(type) - 1))
    ELSE type

\* C29: in the output of a finished run of a type mapper, every type named by
\* a member of a struct definition, the built-ins and the untyped JSON
\* placeholder apart, has exactly one definition in that output.
C29_DefinitionsClosedUnderReference ==
    generation.pc = "done" /\ generation.generator \in TypedGenerators =>
        \A k \in 1..Len(generation.generated) :
            generation.generated[k].form = "struct" =>
                \A f \in 1..Len(generation.generated[k].members) :
                    LET named == NamedType(generation.generated[k].members[f].type)
                    IN  named \notin BuiltinNames \cup {"serde_json::Value"}
                        => DefinitionCount(named) = 1


\* C30: under every interleaving of the calls, a finished
\* get_endpoints_discovery returned None or the whole list of the
\* registration whose set took place first; it returned None only if no
\* registration had finished when it was called; and if an earlier call had
\* returned a list before it was called, it returned that list.
C30_RegistryIsWriteOnce ==
    \A k \in 1..Len(registry.gets) :
        LET get == registry.gets[k]
        IN  /\ get.result = None \/ (/\ Len(registry.registrations) > 0
                                     /\ get.result = Some(registry.registrations[1]))
            /\ get.result = None => get.finished = 0
            /\ get.seen # {} => get.seen = {get.result}

\* Two registrations with different lists took place and a call made after
\* both returned the list of the first.
C30_Witness ==
    /\ Len(registry.registrations) = 2
    /\ registry.registrations[1] # registry.registrations[2]
    /\ \E k \in 1..Len(registry.gets) :
          /\ registry.gets[k].finished = 2
          /\ registry.gets[k].result = Some(registry.registrations[1])

====
